---------------------------- MODULE Spec2Model ----------------------------
(***************************************************************************)
(* A model of the InfluenceOS backend (Backend/): the topic-driven mock    *)
(* content functions, the SQL services behind api/index.py, the response   *)
(* envelopes of the four server entry points, the provider fallbacks and   *)
(* the polled event streams of simple_server.py.                           *)
(*                                                                         *)
(* The backend is a set of independent subsystems.  Each has its own       *)
(* variables, its own initial condition and next-state relation and its    *)
(* own specification; while one subsystem runs, the others stay idle.      *)
(***************************************************************************)
EXTENDS Integers, Sequences, FiniteSets, TLC

VARIABLES
    topic,      \* content: the topic string of the calls, a sequence of characters
    last,       \* content: the latest call, [fn, text, hashtags, image_url]
    prev,       \* content: the call before it when it was of the same function
    posts,      \* database: the rows of table scheduled_posts, in insertion order
    users,      \* database: the rows of table users, in insertion order
    resp,       \* database: what the latest service call or request returned
    MODEL_MANAGER_AVAILABLE,  \* simple_server.py: whether model_manager could be imported
    http,       \* servers: the latest request, [server, fn, kind, cause, failed, response]
    loaded,     \* providers: model_manager.loaded
    gen,        \* providers: the latest generation call, [fn, with, failed, raised, result]
    active_streams,  \* streams: the keys of the dict active_streams
    stream_data,     \* streams: the dict of each stream_id, [status, events]
    task,       \* streams: where the background task of each stream_id stands
    con,        \* streams: the consumers, one GET .../stream/{stream_id} each
    cleanup,    \* streams: the cleanup_stream task of each stream_id
    issued,     \* streams: the stream_ids returned so far, in the order of the requests
    log,        \* streams: every event send_event appended to each stream, in order
    loaders,    \* streams: the stream_ids whose pipeline ran model_manager.load_models()
    img,        \* providers: the run of _generate_image_with_openrouter, [pc, key, lib, requested, url]
    conns,      \* database: every connection psycopg2.connect returned, [open, by, fetch, ops]
    call,       \* database: the call of execute_query of each caller, [pc, n, conn, fetch, ret]
    scheduled_posts,  \* calendar: ContentCalendarService.scheduled_posts, user_id -> list of posts
    view,       \* calendar: what the latest call of ContentCalendarService returned
    now,        \* clock: what datetime.now() returns, in seconds
    cache,      \* caches: RAGPipeline.cache, cache_key -> [data, timestamp]
    trend_cache,  \* caches: ContentIntelligenceService.trend_cache, cache_key -> [trends, timestamp]
    lookup,     \* caches: the latest lookup, [fn, args, at, entry, hit, result]
    redis_client,  \* redis: RedisClient.client and how connect ended, [client, connect]
    redis_db,   \* redis: the keys of the Redis server, key -> [value, expires]
    redis_ops,  \* redis: the cache operations called so far, [fn, key, value, expire, at, ret]
    ab_test_results,  \* A/B tests: EngagementTracker.ab_test_results, test_id -> test_data
    ab,         \* A/B tests: the latest call, [fn, test_id, at, before, ret]
    tags,       \* hashtags: the latest call of _optimize_hashtags, [fn, industry, trends, result]
    req,        \* database: the POST /api/v1/profile/create of each instance, [pc, n, email, lookup, inserted]
    mo,         \* images: the run of generate_multiple_options, [pc, count, images, i, steps, result]
    engagement_data,  \* engagement: EngagementTracker.engagement_data, post_id -> post data
    track       \* engagement: the calls of track_post_engagement so far, [n, before, ret, calls]

contentVars == <<topic, last, prev>>

dbVars == <<posts, users, resp>>

providerVars == <<loaded, gen>>

streamVars == <<active_streams, stream_data, task, con, cleanup, issued, log, loaders>>

serverVars == <<MODEL_MANAGER_AVAILABLE, http, providerVars, streamVars>>

\* the state of the services of app/services and app/db
\* the state of the image generator, the hashtag optimiser and the engagement data
trackVars == <<engagement_data, track>>

otherVars == <<mo, tags, req, trackVars>>

memoryVars == <<now, cache, trend_cache, lookup, redis_client, redis_db, redis_ops,
                ab_test_results, ab, otherVars>>

serviceVars == <<img, conns, call, scheduled_posts, view, memoryVars>>

vars == <<topic, last, prev, posts, users, resp, MODEL_MANAGER_AVAILABLE, http, loaded, gen,
          active_streams, stream_data, task, con, cleanup, issued, log, loaders, img,
          conns, call, scheduled_posts, view, now, cache, trend_cache, lookup, redis_client,
          redis_db, redis_ops, ab_test_results, ab, mo, tags, req, engagement_data, track>>

\* no request has been answered
NoRequest == [fn |-> "none"]

ProviderIdle == loaded = FALSE /\ gen = [fn |-> "none"]

\* streams: how many requests a run has, POST /api/v1/pipeline/generate and
\* GET /api/v1/pipeline/stream/{stream_id} together
MaxRequests == 3

StreamIds == 1..(MaxRequests - 1)

Consumers == 1..(MaxRequests - 1)

\* a consumer that has not sent its request
NoConsumer ==
    [pc |-> "idle", sid |-> 0, idx |-> 0, detached |-> FALSE, old |-> <<>>,
     emitted |-> <<>>, known |-> FALSE, grew |-> FALSE]

\* active_streams = {} and no request yet
StreamIdle ==
    /\ active_streams = {} /\ issued = <<>>
    /\ stream_data = [s \in StreamIds |-> [status |-> "none", events |-> <<>>]]
    /\ task = [s \in StreamIds |-> "unused"]
    /\ cleanup = [s \in StreamIds |-> "none"]
    /\ log = [s \in StreamIds |-> <<>>]
    /\ loaders = {}
    /\ con = [c \in Consumers |-> NoConsumer]

\* _generate_image_with_openrouter has not been called
ImageIdle == img = [pc |-> "idle", key |-> FALSE, lib |-> FALSE, requested |-> <<>>, url |-> ""]

\* the processes that call execute_query
Callers == {1, 2}

\* no connection was opened and no call of execute_query was made
QueryIdle ==
    /\ conns = <<>>
    /\ call = [c \in Callers |-> [pc |-> "idle", n |-> 0, conn |-> 0, fetch |-> "none",
                                  ret |-> "none"]]

\* the user_id values of the calendar
CalendarUsers == {"default", "ann"}

\* ContentCalendarService.__init__; a user without a key has no list yet
CalendarIdle ==
    /\ scheduled_posts = [u \in CalendarUsers |-> <<>>]
    /\ view = [op |-> "none"]

\* the instances of api/index.py that serve requests at the same time: the processes
\* of a serverless deployment (`handler = app`) or the workers of a server
Instances == {1, 2}

\* no call of generate_multiple_options, _optimize_hashtags or track_post_engagement
\* made: EngagementTracker() starts with engagement_data = {}
OtherIdle ==
    /\ req = [r \in Instances |-> [pc |-> "idle", n |-> 0, email |-> "", lookup |-> "none",
                                   inserted |-> FALSE]]
    /\ tags = [fn |-> "none"]
    /\ mo = [pc |-> "idle", count |-> 0, images |-> <<>>, i |-> 0, steps |-> 0, result |-> <<>>]
    /\ engagement_data = <<>>
    /\ track = [n |-> 0, before |-> <<>>, ret |-> [success |-> TRUE], calls |-> <<>>]

\* the clock at its origin, both caches empty, RedisClient() before connect() and
\* EngagementTracker() without a test
MemoryIdle ==
    /\ now = 0
    /\ cache = <<>>
    /\ trend_cache = <<>>
    /\ lookup = [fn |-> "none", n |-> 0]
    /\ redis_client = [client |-> "None", connect |-> "none"]
    /\ redis_db = <<>>
    /\ redis_ops = <<>>
    /\ ab_test_results = <<>>
    /\ ab = [fn |-> "none", n |-> 0]
    /\ OtherIdle

ServicesIdle == ImageIdle /\ QueryIdle /\ CalendarIdle /\ MemoryIdle

ServerIdle ==
    /\ MODEL_MANAGER_AVAILABLE = FALSE /\ http = NoRequest /\ ProviderIdle /\ StreamIdle
    /\ ServicesIdle

(***************************************************************************)
(* Strings.  A Python str is a sequence of one-character strings, so that  *)
(* str.lower(), the `in` substring test and f-string interpolation are     *)
(* computed and not assumed.  A template's literal text is one element.    *)
(***************************************************************************)

\* str.lower() on the letters the topics below are written with
ToLower == ("A" :> "a") @@ ("I" :> "i")

Lower(s) == [k \in 1..Len(s) |-> IF s[k] \in DOMAIN ToLower THEN ToLower[s[k]] ELSE s[k]]

\* Python's `word in s` for strings
Contains(word, s) ==
    \E k \in 0..(Len(s) - Len(word)) : \A j \in 1..Len(word) : s[k + j] = word[j]

\* any(word in s for word in words)
AnyWordIn(words, s) == \E k \in 1..Len(words) : Contains(words[k], s)

\* the number of fragments a topic is concatenated from
MaxParts == 2

TopicFragments ==
    << <<"A","I">>,
       <<"a">>,
       <<"i">>,
       <<" ">>,
       <<"b","u","s","i","n","e","s","s">>,
       <<"t","e","a","m">>,
       <<"m","a","r","k","e","t","i","n","g">>,
       <<"x">> >>

RECURSIVE TopicsOf(_)
TopicsOf(n) ==
    IF n = 0 THEN { <<>> }
    ELSE LET shorter == TopicsOf(n - 1)
         IN  shorter \cup { t \o TopicFragments[k] :
                              t \in shorter, k \in 1..Len(TopicFragments) }

Topics == TopicsOf(MaxParts)

\* a hashtag "#Name": the '#' character, then the name
Tag(name) == <<"#", name>>

(***************************************************************************)
(* api/index.py: the mock content functions.                               *)
(***************************************************************************)

\* hashtag_map, in the insertion order a dict iterates in
hashtag_map ==
    << << <<"a","i">>,
          <<Tag("AI"), Tag("ArtificialIntelligence"), Tag("MachineLearning"),
            Tag("Technology"), Tag("Innovation")>> >>,
       << <<"b","u","s","i","n","e","s","s">>,
          <<Tag("Business"), Tag("Leadership"), Tag("Strategy"), Tag("Growth"),
            Tag("Success")>> >>,
       << <<"m","a","r","k","e","t","i","n","g">>,
          <<Tag("Marketing"), Tag("DigitalMarketing"), Tag("ContentMarketing"),
            Tag("Branding"), Tag("SocialMedia")>> >>,
       << <<"l","e","a","d","e","r","s","h","i","p">>,
          <<Tag("Leadership"), Tag("Management"), Tag("TeamBuilding"),
            Tag("ProfessionalDevelopment"), Tag("Success")>> >>,
       << <<"t","e","c","h","n","o","l","o","g","y">>,
          <<Tag("Technology"), Tag("Innovation"), Tag("DigitalTransformation"),
            Tag("TechTrends"), Tag("Future")>> >>,
       << <<"s","t","a","r","t","u","p">>,
          <<Tag("Startup"), Tag("Entrepreneurship"), Tag("Innovation"),
            Tag("Business"), Tag("Growth")>> >> >>

HashtagSuffix == <<Tag("LinkedIn"), Tag("Professional"), Tag("Networking")>>

DefaultHashtags ==
    <<Tag("LinkedIn"), Tag("Professional"), Tag("Growth"), Tag("Innovation"),
      Tag("Success"), Tag("Business"), Tag("Leadership"), Tag("Networking")>>

\* the mutant: the loop reaches "business" before "ai"
HashtagKeyOrderSwapped == <<2, 1, 3, 4, 5, 6>>

\* the order in which `for key, hashtags in hashtag_map.items()` visits the keys
HashtagKeyOrder == <<1, 2, 3, 4, 5, 6>>

\* generate_hashtags_for_topic: the first key found in topic.lower() decides.
\* (The except branch, which returns four tags, needs a topic that is no str.)
generate_hashtags_for_topic(t) ==
    LET topic_lower == Lower(t)
        hits == { k \in 1..Len(HashtagKeyOrder) :
                    Contains(hashtag_map[HashtagKeyOrder[k]][1], topic_lower) }
    IN  IF hits # {}
        THEN LET first == CHOOSE k \in hits : \A j \in hits : k <= j
             IN  SubSeq(hashtag_map[HashtagKeyOrder[first]][2], 1, 5) \o HashtagSuffix
        ELSE DefaultHashtags

IndexTechWords ==
    << <<"a","i">>,
       <<"t","e","c","h">>,
       <<"d","i","g","i","t","a","l">>,
       <<"i","n","n","o","v","a","t","i","o","n">> >>

IndexBusinessWords ==
    << <<"b","u","s","i","n","e","s","s">>,
       <<"s","t","r","a","t","e","g","y">>,
       <<"g","r","o","w","t","h">> >>

IndexLeadershipWords ==
    << <<"l","e","a","d","e","r","s","h","i","p">>,
       <<"t","e","a","m">>,
       <<"m","a","n","a","g","e","m","e","n","t">> >>

\* the four stock images of get_fallback_image
FallbackImageUrls ==
    { "https://images.unsplash.com/photo-1518709268805-4e9042af2176?w=800&h=600&fit=crop",
      "https://images.unsplash.com/photo-1552664730-d307ca884978?w=800&h=600&fit=crop",
      "https://images.unsplash.com/photo-1507003211169-0a1dd7228f2d?w=800&h=600&fit=crop",
      "https://images.unsplash.com/photo-1560472354-b33ff0c44a43?w=800&h=600&fit=crop" }

get_fallback_image(t) ==
    LET topic_lower == Lower(t)
    IN  IF AnyWordIn(IndexTechWords, topic_lower)
        THEN "https://images.unsplash.com/photo-1518709268805-4e9042af2176?w=800&h=600&fit=crop"
        ELSE IF AnyWordIn(IndexBusinessWords, topic_lower)
        THEN "https://images.unsplash.com/photo-1552664730-d307ca884978?w=800&h=600&fit=crop"
        ELSE IF AnyWordIn(IndexLeadershipWords, topic_lower)
        THEN "https://images.unsplash.com/photo-1507003211169-0a1dd7228f2d?w=800&h=600&fit=crop"
        ELSE "https://images.unsplash.com/photo-1560472354-b33ff0c44a43?w=800&h=600&fit=crop"

\* the mutant: the text is the topic alone
MockTextTopicOnly(t) == t

\* the f-string of generate_mock_content: literal text around four copies of the topic
MockText(t) ==
    <<"Exciting insights about ">> \o t \o <<"! ... understanding ">> \o t
        \o <<" has become crucial ... ahead of the curve with ">> \o t
        \o <<", we position ourselves ... What's your experience with ">> \o t
        \o <<"? Share your thoughts in the comments!">>

\* one call's result; a function that returns less leaves the other fields empty
Result(fn, text, hashtags, image_url) ==
    [fn |-> fn, text |-> text, hashtags |-> hashtags, image_url |-> image_url]

NoCall == Result("none", <<>>, <<>>, "")

generate_mock_content(t) ==
    Result("index.generate_mock_content", MockText(t),
           generate_hashtags_for_topic(t), get_fallback_image(t))

\* basic_server.py: the same text and image function, a fixed hashtag list
basic_generate_mock_content(t) ==
    Result("basic.generate_mock_content", MockText(t),
           DefaultHashtags, get_fallback_image(t))

(***************************************************************************)
(* working_server.py and app/services/image_generator.py: the stock image  *)
(* is drawn with random.choice from the list the topic selects.            *)
(***************************************************************************)

WsTechWords ==
    << <<"a","i">>,
       <<"a","r","t","i","f","i","c","i","a","l">>,
       <<"t","e","c","h">>,
       <<"d","i","g","i","t","a","l">>,
       <<"i","n","n","o","v","a","t","i","o","n">>,
       <<"s","o","f","t","w","a","r","e">>,
       <<"d","a","t","a">>,
       <<"a","u","t","o","m","a","t","i","o","n">> >>

WsBusinessWords ==
    << <<"b","u","s","i","n","e","s","s">>,
       <<"s","t","r","a","t","e","g","y">>,
       <<"g","r","o","w","t","h">>,
       <<"m","a","r","k","e","t">>,
       <<"f","i","n","a","n","c","e">>,
       <<"s","a","l","e","s">>,
       <<"r","e","v","e","n","u","e">> >>

WsLeadershipWords ==
    << <<"l","e","a","d","e","r","s","h","i","p">>,
       <<"t","e","a","m">>,
       <<"m","a","n","a","g","e","m","e","n","t">>,
       <<"c","u","l","t","u","r","e">>,
       <<"c","o","l","l","a","b","o","r","a","t","i","o","n">>,
       <<"c","o","m","m","u","n","i","c","a","t","i","o","n">> >>

WsMarketingWords ==
    << <<"m","a","r","k","e","t","i","n","g">>,
       <<"s","o","c","i","a","l">>,
       <<"c","o","n","t","e","n","t">>,
       <<"b","r","a","n","d">>,
       <<"a","u","d","i","e","n","c","e">>,
       <<"e","n","g","a","g","e","m","e","n","t">> >>

\* the five `images` lists of get_professional_image, by category
WsImages ==
    [ tech |->
        << "https://images.unsplash.com/photo-1518709268805-4e9042af2176?w=800&h=600&fit=crop&auto=format",
           "https://images.unsplash.com/photo-1451187580459-43490279c0fa?w=800&h=600&fit=crop&auto=format",
           "https://images.unsplash.com/photo-1504384308090-c894fdcc538d?w=800&h=600&fit=crop&auto=format",
           "https://images.unsplash.com/photo-1485827404703-89b55fcc595e?w=800&h=600&fit=crop&auto=format",
           "https://images.unsplash.com/photo-1558494949-ef010cbdcc31?w=800&h=600&fit=crop&auto=format" >>,
      business |->
        << "https://images.unsplash.com/photo-1552664730-d307ca884978?w=800&h=600&fit=crop&auto=format",
           "https://images.unsplash.com/photo-1454165804606-c3d57bc86b40?w=800&h=600&fit=crop&auto=format",
           "https://images.unsplash.com/photo-1507679799987-c73779587ccf?w=800&h=600&fit=crop&auto=format",
           "https://images.unsplash.com/photo-1556761175-b413da4baf72?w=800&h=600&fit=crop&auto=format",
           "https://images.unsplash.com/photo-1542744173-8e7e53415bb0?w=800&h=600&fit=crop&auto=format" >>,
      leadership |->
        << "https://images.unsplash.com/photo-1507003211169-0a1dd7228f2d?w=800&h=600&fit=crop&auto=format",
           "https://images.unsplash.com/photo-1521737604893-d14cc237f11d?w=800&h=600&fit=crop&auto=format",
           "https://images.unsplash.com/photo-1522202176988-66273c2fd55f?w=800&h=600&fit=crop&auto=format",
           "https://images.unsplash.com/photo-1515187029135-18ee286d815b?w=800&h=600&fit=crop&auto=format",
           "https://images.unsplash.com/photo-1600880292203-757bb62b4baf?w=800&h=600&fit=crop&auto=format" >>,
      marketing |->
        << "https://images.unsplash.com/photo-1460925895917-afdab827c52f?w=800&h=600&fit=crop&auto=format",
           "https://images.unsplash.com/photo-1533750516457-a7f992034fec?w=800&h=600&fit=crop&auto=format",
           "https://images.unsplash.com/photo-1432888622747-4eb9a8efeb07?w=800&h=600&fit=crop&auto=format",
           "https://images.unsplash.com/photo-1611224923853-80b023f02d71?w=800&h=600&fit=crop&auto=format",
           "https://images.unsplash.com/photo-1553028826-f4804a6dba3b?w=800&h=600&fit=crop&auto=format" >>,
      general |->
        << "https://images.unsplash.com/photo-1560472354-b33ff0c44a43?w=800&h=600&fit=crop&auto=format",
           "https://images.unsplash.com/photo-1486312338219-ce68e2c6b696?w=800&h=600&fit=crop&auto=format",
           "https://images.unsplash.com/photo-1497032628192-86f99bcd76bc?w=800&h=600&fit=crop&auto=format",
           "https://images.unsplash.com/photo-1559136555-9303baea8ebd?w=800&h=600&fit=crop&auto=format",
           "https://images.unsplash.com/photo-1573164713714-d95e436ab8d6?w=800&h=600&fit=crop&auto=format" >> ]

\* the mutant: one list for every topic, the five lists joined
professional_images_any(t) ==
    WsImages.tech \o WsImages.business \o WsImages.leadership
        \o WsImages.marketing \o WsImages.general

\* get_professional_image up to its last line: the `images` list the topic selects
professional_images(t) ==
    LET topic_lower == Lower(t)
    IN  IF AnyWordIn(WsTechWords, topic_lower) THEN WsImages.tech
        ELSE IF AnyWordIn(WsBusinessWords, topic_lower) THEN WsImages.business
        ELSE IF AnyWordIn(WsLeadershipWords, topic_lower) THEN WsImages.leadership
        ELSE IF AnyWordIn(WsMarketingWords, topic_lower) THEN WsImages.marketing
        ELSE WsImages.general

IgTechWords ==
    << <<"a","i">>,
       <<"t","e","c","h">>,
       <<"d","i","g","i","t","a","l">>,
       <<"i","n","n","o","v","a","t","i","o","n">>,
       <<"s","o","f","t","w","a","r","e">> >>

IgBusinessWords ==
    << <<"b","u","s","i","n","e","s","s">>,
       <<"s","t","r","a","t","e","g","y">>,
       <<"g","r","o","w","t","h">>,
       <<"s","u","c","c","e","s","s">> >>

\* OpenSourceImageGenerator.fallback_images
fallback_images ==
    [ technology |->
        << "https://images.unsplash.com/photo-1518709268805-4e9042af2176?w=800&h=600&fit=crop",
           "https://images.unsplash.com/photo-1451187580459-43490279c0fa?w=800&h=600&fit=crop",
           "https://images.unsplash.com/photo-1504384308090-c894fdcc538d?w=800&h=600&fit=crop" >>,
      business |->
        << "https://images.unsplash.com/photo-1507003211169-0a1dd7228f2d?w=800&h=600&fit=crop",
           "https://images.unsplash.com/photo-1552664730-d307ca884978?w=800&h=600&fit=crop",
           "https://images.unsplash.com/photo-1454165804606-c3d57bc86b40?w=800&h=600&fit=crop" >>,
      professional |->
        << "https://images.unsplash.com/photo-1560472354-b33ff0c44a43?w=800&h=600&fit=crop",
           "https://images.unsplash.com/photo-1521737604893-d14cc237f11d?w=800&h=600&fit=crop",
           "https://images.unsplash.com/photo-1486312338219-ce68e2c6b696?w=800&h=600&fit=crop" >> ]

\* _get_fallback_image up to random.choice: the list of the topic's category
ig_fallback_candidates(t) ==
    LET topic_lower == Lower(t)
    IN  IF AnyWordIn(IgTechWords, topic_lower) THEN fallback_images.technology
        ELSE IF AnyWordIn(IgBusinessWords, topic_lower) THEN fallback_images.business
        ELSE fallback_images.professional

(***************************************************************************)
(* The content specification: a topic is drawn, then the functions are     *)
(* called on it, any number of times and in any order.                     *)
(***************************************************************************)

ContentIdle == topic = <<>> /\ last = NoCall /\ prev = NoCall

ContentInit ==
    /\ topic \in Topics /\ last = NoCall /\ prev = NoCall
    /\ posts = <<>> /\ users = <<>> /\ resp = [op |-> "none"]
    /\ ServerIdle

\* a call returns r; the call before it is kept when it was of the same function
Returns(r) ==
    /\ last' = r
    /\ prev' = IF last.fn = r.fn THEN last ELSE NoCall
    /\ UNCHANGED <<topic, dbVars, serverVars, serviceVars>>

CallGenerateMockContent == Returns(generate_mock_content(topic))

CallBasicGenerateMockContent == Returns(basic_generate_mock_content(topic))

CallGenerateHashtags ==
    Returns(Result("index.generate_hashtags_for_topic", <<>>,
                   generate_hashtags_for_topic(topic), ""))

CallGetFallbackImage ==
    Returns(Result("index.get_fallback_image", <<>>, <<>>, get_fallback_image(topic)))

\* return random.choice(images)
CallGetProfessionalImage ==
    \E k \in 1..Len(professional_images(topic)) :
        Returns(Result("working.get_professional_image", <<>>, <<>>,
                       professional_images(topic)[k]))

\* selected_image = random.choice(images)
CallIgFallbackImage ==
    \E k \in 1..Len(ig_fallback_candidates(topic)) :
        Returns(Result("image_generator._get_fallback_image", <<>>, <<>>,
                       ig_fallback_candidates(topic)[k]))

ContentNext ==
    \/ CallGenerateMockContent
    \/ CallBasicGenerateMockContent
    \/ CallGenerateHashtags
    \/ CallGetFallbackImage
    \/ CallGetProfessionalImage
    \/ CallIgFallbackImage

SpecContent == ContentInit /\ [][ContentNext]_vars

(***************************************************************************)
(* Claims on the content functions.                                        *)
(***************************************************************************)

\* C1: for every topic, the empty one included, generate_mock_content (api/index.py
\* and basic_server.py) returns a non-empty text, between 4 and 8 hashtags that each
\* start with '#', and one of the four fixed stock-image URLs.
C1_MockContentShape ==
    last.fn \in {"index.generate_mock_content", "basic.generate_mock_content"} =>
        /\ Len(last.text) > 0
        /\ Len(last.hashtags) \in 4..8
        /\ \A k \in 1..Len(last.hashtags) : last.hashtags[k][1] = "#"
        /\ last.image_url \in FallbackImageUrls

\* the empty topic has gone through generate_mock_content of api/index.py
C1_Witness == topic = <<>> /\ last.fn = "index.generate_mock_content"

\* C2: generate_hashtags_for_topic is deterministic, and a topic whose lower-cased
\* text contains "ai" gets the five AI tags followed by #LinkedIn, #Professional,
\* #Networking, whatever other keywords it contains.
C2_AiHashtags ==
    last.fn = "index.generate_hashtags_for_topic" =>
        /\ prev.fn = last.fn => prev.hashtags = last.hashtags
        /\ Contains(<<"a","i">>, Lower(topic)) =>
             last.hashtags =
                 << <<"#","AI">>, <<"#","ArtificialIntelligence">>,
                    <<"#","MachineLearning">>, <<"#","Technology">>,
                    <<"#","Innovation">>, <<"#","LinkedIn">>,
                    <<"#","Professional">>, <<"#","Networking">> >>

\* "AIbusiness", which also holds the key "business", has been looked up twice
C2_Witness ==
    /\ topic = <<"A","I","b","u","s","i","n","e","s","s">>
    /\ last.fn = "index.generate_hashtags_for_topic"
    /\ prev.fn = last.fn

FallbackImageFns ==
    {"index.get_fallback_image", "working.get_professional_image",
     "image_generator._get_fallback_image"}

\* C7 as claimed: in every fallback path two calls with the same topic return the
\* same image URL.
C7_Original ==
    (last.fn \in FallbackImageFns /\ prev.fn = last.fn) =>
        prev.image_url = last.image_url

\* the set of the elements of a list
Range(list) == { list[k] : k \in 1..Len(list) }

\* C7 as amended: get_fallback_image of api/index.py returns the same URL for the same
\* topic; get_professional_image and _get_fallback_image return URLs of one and the
\* same category list, from which each call draws at random.
C7_SameCategory ==
    (last.fn \in FallbackImageFns /\ prev.fn = last.fn) =>
        CASE last.fn = "index.get_fallback_image" ->
               prev.image_url = last.image_url
          [] last.fn = "working.get_professional_image" ->
               \E c \in DOMAIN WsImages :
                   {prev.image_url, last.image_url} \subseteq Range(WsImages[c])
          [] last.fn = "image_generator._get_fallback_image" ->
               \E c \in DOMAIN fallback_images :
                   {prev.image_url, last.image_url} \subseteq Range(fallback_images[c])

\* two calls of get_professional_image on one topic returned different URLs
C7_Witness ==
    /\ last.fn = "working.get_professional_image"
    /\ prev.fn = last.fn
    /\ prev.image_url # last.image_url

(***************************************************************************)
(* app/db/database.py and the SQL services.  Every execute_query opens its *)
(* own connection, so every query has its own outcome: the connection is   *)
(* refused, the statement raises a psycopg2.Error, or the statement runs   *)
(* and is committed.                                                       *)
(***************************************************************************)

DbOutcomes == {"ok", "connect_failed", "db_error"}

\* Python's None, as execute_query returns it
None == [kind |-> "None"]

\* execute_query: the fetched result when the statement ran, None otherwise
execute_query(outcome, result) == IF outcome = "ok" THEN result ELSE None

\* the mutant: no ORDER BY, the rows come in table order
TableOrder(rows) == {rows}

\* ORDER BY scheduled_time ASC: every arrangement of the rows in which scheduled_time
\* never decreases (SQL leaves the order of equal keys open)
OrderByScheduledTime(rows) ==
    { sorted \in { [k \in 1..Len(rows) |-> rows[p[k]]] : p \in Permutations(1..Len(rows)) } :
        \A k \in 1..(Len(sorted) - 1) :
            sorted[k].scheduled_time <= sorted[k + 1].scheduled_time }

\* bounds of the scheduling runs: rows in scheduled_posts, distinct scheduled times
MaxPosts == 3
MaxTime == 3

UserIds == {"u1", "u2"}

DbIdle == posts = <<>> /\ users = <<>> /\ resp = [op |-> "none"]

PostsInit == DbIdle /\ topic = <<>> /\ last = NoCall /\ prev = NoCall /\ ServerIdle

\* content_service.schedule_post: INSERT ... RETURNING; status takes the column default
schedule_post(user_id, scheduled_time, outcome) ==
    LET row == [kind |-> "row", id |-> Len(posts) + 1, user_id |-> user_id,
                scheduled_time |-> scheduled_time, status |-> "scheduled"]
    IN  /\ Len(posts) < MaxPosts
        /\ posts' = IF outcome = "ok" THEN Append(posts, row) ELSE posts
        /\ resp' = [op |-> "schedule_post", user_id |-> user_id,
                    result |-> execute_query(outcome, row)]
        /\ UNCHANGED <<users, contentVars, serverVars, serviceVars>>

\* content_service.get_scheduled_posts: SELECT * ... WHERE user_id = %s ORDER BY
\* scheduled_time ASC, fetchall
get_scheduled_posts(user_id, outcome) ==
    LET OfUser(r) == r.user_id = user_id
    IN  \E rows \in OrderByScheduledTime(SelectSeq(posts, OfUser)) :
           /\ resp' = [op |-> "get_scheduled_posts", user_id |-> user_id,
                       result |-> execute_query(outcome, [kind |-> "rows", rows |-> rows])]
           /\ UNCHANGED <<posts, users, contentVars, serverVars, serviceVars>>

SchedulePost == \E u \in UserIds, t \in 1..MaxTime, o \in DbOutcomes : schedule_post(u, t, o)

GetScheduledPosts == \E u \in UserIds, o \in DbOutcomes : get_scheduled_posts(u, o)

PostsNext == SchedulePost \/ GetScheduledPosts

SpecPosts == PostsInit /\ [][PostsNext]_vars

\* C3: a listing that get_scheduled_posts(u) returns holds every row scheduled for u,
\* each once, no row of another user, and its scheduled_time never decreases,
\* whatever the order of the inserts.  (A query that fails returns None, no listing.)
C3_ListingSorted ==
    (resp.op = "get_scheduled_posts" /\ resp.result # None) =>
        LET rows == resp.result.rows
        IN  /\ \A k \in 1..Len(rows) : rows[k].user_id = resp.user_id
            /\ { rows[k].id : k \in 1..Len(rows) }
                 = { k \in 1..Len(posts) : posts[k].user_id = resp.user_id }
            /\ Len(rows) = Cardinality({ k \in 1..Len(posts) : posts[k].user_id = resp.user_id })
            /\ \A k \in 1..(Len(rows) - 1) :
                   rows[k].scheduled_time <= rows[k + 1].scheduled_time

\* u1's later post was inserted before its earlier one, with a post of u2 in the
\* table, and the listing of u1 returned both
C3_Witness ==
    /\ resp.op = "get_scheduled_posts" /\ resp.user_id = "u1" /\ resp.result # None
    /\ Len(resp.result.rows) = 2
    /\ \E i, j, k \in 1..Len(posts) :
          /\ i < j /\ posts[i].user_id = "u1" /\ posts[j].user_id = "u1"
          /\ posts[i].scheduled_time > posts[j].scheduled_time
          /\ posts[k].user_id = "u2"

(***************************************************************************)
(* api/index.py on table users: POST /api/v1/profile/create and            *)
(* GET /api/v1/profile/analyze, with app/services/user_service.py.         *)
(***************************************************************************)

\* rows in table users
MaxUsers == 3

Emails == {"test@example.com", "ann@example.com"}

\* the optional profile columns a request fills in: none of them, or all
ProfileFields == { {}, {"bio", "linkedin_profile_url", "industry"} }

\* the mutant: the except branch returns the dict itself, which FastAPI sends with 200
ErrorDict(error, message) ==
    [status |-> 200, keys |-> {"success", "error", "message"}, success |-> FALSE,
     error |-> error, message |-> message]

\* JSONResponse(status_code=500, content={"success": False, "error": str(e), "message": ...})
ErrorEnvelope(error, message) ==
    [status |-> 500, keys |-> {"success", "error", "message"}, success |-> FALSE,
     error |-> error, message |-> message]

\* a returned dict with "success": True and the other keys given
Success(keys) ==
    [status |-> 200, keys |-> {"success"} \cup keys, success |-> TRUE,
     error |-> "", message |-> ""]

\* cur.fetchone(): the first row of the result, None when there is none
fetchone(rows) == IF rows = <<>> THEN None ELSE rows[1]

\* user_service.get_user_by_email: SELECT * FROM users WHERE email = %s, fetchone
get_user_by_email(email, outcome) ==
    LET HasEmail(r) == r.email = email
    IN  execute_query(outcome, fetchone(SelectSeq(users, HasEmail)))

\* user_service.create_user: the row INSERT ... RETURNING would return
NewUser(email, fields) ==
    [kind |-> "row", id |-> Len(users) + 1, email |-> email, fields |-> fields]

\* create_user_profile: the existence check, then the insert.  o1 and o2 are the
\* outcomes of the two queries.  existed and rows_before record the table as the
\* request found it.
create_user_profile(email, fields, o1, o2) ==
    LET existing_user == get_user_by_email(email, o1)
        new_user == execute_query(o2, NewUser(email, fields))
        seen == [op |-> "profile/create", email |-> email,
                 existed |-> \E k \in 1..Len(users) : users[k].email = email,
                 rows_before |-> Len(users), lookup |-> o1]
    IN  /\ Len(users) < MaxUsers
        /\ IF existing_user # None
           THEN \* raise HTTPException(400), caught by `except Exception`
                /\ users' = users
                /\ resp' = seen @@ [create_called |-> FALSE,
                                    http |-> ErrorEnvelope("400: Email already registered",
                                                           "User profile creation failed")]
           ELSE /\ users' = IF o2 = "ok" THEN Append(users, NewUser(email, fields)) ELSE users
                /\ resp' = seen @@ [create_called |-> TRUE,
                                    http |-> IF new_user # None
                                             THEN Success({"user"})
                                             ELSE ErrorEnvelope("500: Failed to create user",
                                                                "User profile creation failed")]
        /\ UNCHANGED <<posts, contentVars, serverVars, serviceVars>>

\* analyze_profile: looks test@example.com up, inserts it when the lookup returned
\* nothing, looks it up again and scores the row by its empty columns
analyze_profile(o1, o2, o3) ==
    LET email == "test@example.com"
        first == get_user_by_email(email, o1)
        dummy == NewUser(email, {"bio"})
        inserted == first = None /\ o2 = "ok"
        HasEmail(r) == r.email = email
        after == IF inserted THEN Append(users, dummy) ELSE users
        profile == IF first # None THEN first
                   ELSE execute_query(o3, fetchone(SelectSeq(after, HasEmail)))
        seen == [op |-> "profile/analyze", email |-> email,
                 existed |-> \E k \in 1..Len(users) : users[k].email = email,
                 rows_before |-> Len(users), create_called |-> first = None]
    IN  /\ Len(users) < MaxUsers
        /\ users' = after
        /\ resp' = seen @@
               [http |-> IF profile = None
                         THEN ErrorEnvelope("404: User not found", "Profile analysis failed")
                         ELSE Success({"analysis", "generated_at"}),
                profile_score |-> IF profile = None THEN 0
                                  ELSE 100 - 25 * Cardinality(
                                         {"bio", "linkedin_profile_url", "industry"}
                                            \ profile.fields)]
        /\ UNCHANGED <<posts, contentVars, serverVars, serviceVars>>

\* user_service.get_user_profile
get_user_profile(email, outcome) ==
    LET user == get_user_by_email(email, outcome)
    IN  IF user = None THEN None ELSE user

\* the mutant: get_total_posts without `if result else 0`
get_total_posts_unguarded(user_id, outcome) ==
    IF outcome = "ok" THEN 0 ELSE -1

\* analytics_service.get_total_posts: SELECT COUNT(*) ... WHERE user_id = %s AND
\* status = 'published', fetchone
get_total_posts(user_id, outcome) ==
    LET Published(r) == r.user_id = user_id /\ r.status = "published"
        result == execute_query(outcome, [kind |-> "row",
                                          total_posts |-> Len(SelectSeq(posts, Published))])
    IN  IF result # None THEN result.total_posts ELSE 0

\* analytics_service.get_total_likes: SELECT SUM(engagement_metrics->>'likes') of the
\* published posts of the user.  No statement of the backend writes
\* engagement_metrics, so the sum is over no value and is NULL.
get_total_likes(user_id, outcome) ==
    LET result == execute_query(outcome, [kind |-> "row", total_likes |-> None])
    IN  IF result # None /\ result.total_likes # None THEN result.total_likes ELSE 0

\* analytics_service.get_basic_analytics, with the static numbers that are integers
get_basic_analytics(user_id, o1, o2) ==
    [total_posts |-> get_total_posts(user_id, o1),
     total_likes |-> get_total_likes(user_id, o2),
     total_comments |-> 89, total_shares |-> 34]

\* GET /api/v1/analytics of api/index.py
get_analytics(o1, o2) ==
    LET user_id == "f47ac10b-58cc-4372-a567-0e02b2c3d479"
    IN  /\ resp' = [op |-> "analytics", user_id |-> user_id, lookup |-> <<o1, o2>>,
                    analytics |-> get_basic_analytics(user_id, o1, o2),
                    http |-> Success({"analytics", "generated_at"})]
        /\ UNCHANGED <<posts, users, contentVars, serverVars, serviceVars>>

GetAnalytics == \E o1, o2 \in DbOutcomes : get_analytics(o1, o2)

CreateUserProfile ==
    \E e \in Emails, f \in ProfileFields, o1, o2 \in DbOutcomes :
        create_user_profile(e, f, o1, o2)

AnalyzeProfile == \E o1, o2, o3 \in DbOutcomes : analyze_profile(o1, o2, o3)

UsersNext == CreateUserProfile \/ AnalyzeProfile \/ GetAnalytics

SpecUsers == PostsInit /\ [][UsersNext]_vars

\* C4 as claimed: a POST /api/v1/profile/create whose email is already in table users
\* inserts no row, does not call create_user, and is answered with HTTP 500 and the
\* envelope {success: false, error, message}.
C4_DuplicateRejected ==
    (resp.op = "profile/create" /\ resp.existed) =>
        /\ ~resp.create_called
        /\ Len(users) = resp.rows_before
        /\ resp.http.status = 500
        /\ resp.http.success = FALSE
        /\ resp.http.keys = {"success", "error", "message"}

\* the query could not be answered: no connection, or a database error
Unreachable == {"connect_failed", "db_error"}

Handler(server, fn, line, kind) ==
    [server |-> server, fn |-> fn, line |-> line, kind |-> kind]

\* the route handlers of api/index.py
IndexHandlers ==
    { Handler("api/index.py", "root", 218, "plain"),
      Handler("api/index.py", "health_check", 228, "plain"),
      Handler("api/index.py", "generate_content", 242, "guarded"),
      Handler("api/index.py", "generate_image_endpoint", 276, "guarded"),
      Handler("api/index.py", "get_analytics", 304, "db_read"),
      Handler("api/index.py", "analyze_profile", 331, "guarded"),
      Handler("api/index.py", "create_user_profile", 391, "guarded"),
      Handler("api/index.py", "schedule_post_endpoint", 433, "db_write"),
      Handler("api/index.py", "get_content_calendar", 463, "db_read"),
      Handler("api/index.py", "create_outreach_campaign_endpoint", 487, "db_write"),
      Handler("api/index.py", "get_outreach_campaigns_endpoint", 517, "db_read") }

\* the route handlers of basic_server.py
BasicHandlers ==
    { Handler("basic_server.py", "root", 63, "plain"),
      Handler("basic_server.py", "health_check", 73, "plain"),
      Handler("basic_server.py", "generate_content", 82, "guarded"),
      Handler("basic_server.py", "generate_image_endpoint", 111, "guarded"),
      Handler("basic_server.py", "get_analytics", 140, "static"),
      Handler("basic_server.py", "analyze_profile", 181, "static"),
      Handler("basic_server.py", "connect_linkedin", 201, "guarded"),
      Handler("basic_server.py", "get_outreach_campaigns", 230, "static"),
      Handler("basic_server.py", "create_post", 259, "guarded"),
      Handler("basic_server.py", "get_posts", 289, "static") }

\* the route handlers of working_server.py
WorkingHandlers ==
    { Handler("working_server.py", "root", 142, "plain"),
      Handler("working_server.py", "health_check", 160, "plain"),
      Handler("working_server.py", "generate_content", 170, "guarded"),
      Handler("working_server.py", "generate_image_endpoint", 201, "guarded"),
      Handler("working_server.py", "get_analytics", 229, "static"),
      Handler("working_server.py", "analyze_profile", 251, "static"),
      Handler("working_server.py", "get_outreach_campaigns", 271, "static"),
      Handler("working_server.py", "get_engagement_analytics", 300, "static"),
      Handler("working_server.py", "get_engagement_analytics_alt", 322, "static"),
      Handler("working_server.py", "get_content_calendar", 348, "static"),
      Handler("working_server.py", "get_optimal_posting_times", 375, "static"),
      Handler("working_server.py", "create_post", 390, "guarded"),
      Handler("working_server.py", "get_posts", 420, "static"),
      Handler("working_server.py", "get_engagement_analytics_dashboard", 440, "static"),
      Handler("working_server.py", "get_content_calendar_dashboard", 477, "static"),
      Handler("working_server.py", "get_optimal_times_dashboard", 508, "static"),
      Handler("working_server.py", "get_profile_analysis", 527, "static"),
      Handler("working_server.py", "connect_linkedin", 558, "static"),
      Handler("working_server.py", "create_profile_endpoint", 568, "guarded"),
      Handler("working_server.py", "get_outreach_templates", 601, "static"),
      Handler("working_server.py", "create_outreach_campaign_endpoint", 617, "guarded"),
      Handler("working_server.py", "schedule_post_endpoint", 653, "guarded"),
      Handler("working_server.py", "generate_intelligent_content_endpoint", 684, "guarded") }

\* the route handlers of simple_server.py
SimpleHandlers ==
    { Handler("simple_server.py", "root", 58, "plain"),
      Handler("simple_server.py", "health", 62, "plain"),
      Handler("simple_server.py", "get_test_page", 66, "test_page"),
      Handler("simple_server.py", "generate_content", 75, "pipeline_start"),
      Handler("simple_server.py", "stream_pipeline_events", 96, "stream"),
      Handler("simple_server.py", "get_analytics", 137, "static"),
      Handler("simple_server.py", "analyze_profile", 155, "static"),
      Handler("simple_server.py", "schedule_post", 172, "static"),
      Handler("simple_server.py", "get_outreach_campaigns", 187, "static"),
      Handler("simple_server.py", "create_outreach_campaign", 214, "static"),
      Handler("simple_server.py", "get_outreach_templates", 230, "static"),
      Handler("simple_server.py", "create_new_post", 251, "posts_create"),
      Handler("simple_server.py", "connect_linkedin", 289, "static"),
      Handler("simple_server.py", "create_profile", 299, "static"),
      Handler("simple_server.py", "generate_image", 316, "static") }

\* what can happen in the body of handler h:
\*   raises        the try body raises (request.json() on a body that is no JSON, a
\*                 raised HTTPException, a topic that is no str in create_new_post)
\*   DbOutcomes    the outcome of the handler's query
\*   unknown_id    stream_id is not in active_streams
\*   file_missing  open("test-api.html") raises FileNotFoundError
Causes(h, model_manager_available) ==
    CASE h.kind \in {"plain", "static", "pipeline_start"} -> {"ok"}
      [] h.kind = "guarded"            -> {"ok", "raises"}
      [] h.kind \in {"db_write", "db_read"} -> DbOutcomes
      [] h.kind = "stream"             -> {"ok", "unknown_id"}
      [] h.kind = "test_page"          -> {"ok", "file_missing"}
      [] h.kind = "posts_create"       -> IF model_manager_available
                                          THEN {"ok", "raises"} ELSE {"ok"}

\* a response whose body is no JSON object with a success key
Body(status, keys) ==
    [status |-> status, keys |-> keys, error |-> "", message |-> ""]

\* the response of handler h when `cause` happens in its body
Response(h, cause) ==
    CASE h.kind = "plain"  -> Body(200, {"payload"})
      [] h.kind = "static" -> Success({"payload"})
      [] h.kind = "guarded" ->
            IF cause = "raises" THEN ErrorEnvelope("str(e)", h.fn) ELSE Success({"payload"})
      [] h.kind = "db_write" ->
            \* if new_post: return {...} else: raise HTTPException(500), caught below
            IF execute_query(cause, [kind |-> "row"]) = None
            THEN ErrorEnvelope("str(e)", h.fn) ELSE Success({"payload"})
      [] h.kind = "db_read" ->
            \* the service result goes into the body as it is, None when the query failed
            Success({"payload"})
      [] h.kind = "pipeline_start" ->
            \* PipelineResponse(stream_id=..., message=...)
            Body(200, {"stream_id", "message"})
      [] h.kind = "stream" ->
            \* return {"error": "Stream not found"}, or the StreamingResponse
            IF cause = "unknown_id" THEN Body(200, {"error"}) ELSE Body(200, {})
      [] h.kind = "test_page" ->
            \* HTMLResponse, status_code=404 when the file is missing
            IF cause = "file_missing" THEN Body(404, {}) ELSE Body(200, {})
      [] h.kind = "posts_create" ->
            \* except Exception: return {"success": False, "error": ...}
            IF cause = "raises"
            THEN [status |-> 200, keys |-> {"success", "error"}, success |-> FALSE,
                  error |-> "str(e)", message |-> ""]
            ELSE Success({"payload"})

HttpInit ==
    /\ MODEL_MANAGER_AVAILABLE \in BOOLEAN /\ http = NoRequest
    /\ ContentIdle /\ DbIdle /\ ProviderIdle /\ StreamIdle /\ ServicesIdle

\* the record of one request to handler h in whose body `cause` happened
Answered(h, cause) ==
    [server |-> h.server, fn |-> h.fn, line |-> h.line, kind |-> h.kind,
     cause |-> cause, failed |-> cause # "ok", response |-> Response(h, cause)]

IndexRequest ==
    \E h \in IndexHandlers : \E cause \in Causes(h, MODEL_MANAGER_AVAILABLE) :
        /\ http' = Answered(h, cause)
        /\ UNCHANGED <<MODEL_MANAGER_AVAILABLE, contentVars, dbVars, providerVars, streamVars,
                     serviceVars>>

BasicRequest ==
    \E h \in BasicHandlers : \E cause \in Causes(h, MODEL_MANAGER_AVAILABLE) :
        /\ http' = Answered(h, cause)
        /\ UNCHANGED <<MODEL_MANAGER_AVAILABLE, contentVars, dbVars, providerVars, streamVars,
                     serviceVars>>

WorkingRequest ==
    \E h \in WorkingHandlers : \E cause \in Causes(h, MODEL_MANAGER_AVAILABLE) :
        /\ http' = Answered(h, cause)
        /\ UNCHANGED <<MODEL_MANAGER_AVAILABLE, contentVars, dbVars, providerVars, streamVars,
                     serviceVars>>

SimpleRequest ==
    \E h \in SimpleHandlers : \E cause \in Causes(h, MODEL_MANAGER_AVAILABLE) :
        /\ http' = Answered(h, cause)
        /\ UNCHANGED <<MODEL_MANAGER_AVAILABLE, contentVars, dbVars, providerVars, streamVars,
                     serviceVars>>

HttpNext == IndexRequest \/ BasicRequest \/ WorkingRequest \/ SimpleRequest

SpecHttp == HttpInit /\ [][HttpNext]_vars

\* the body has the key success, with value v
SuccessIs(r, v) == "success" \in r.keys /\ r.success = v

\* the body {success: false, error, message} with HTTP status 500
IsErrorEnvelope(r) ==
    r.status = 500 /\ r.keys = {"success", "error", "message"} /\ SuccessIs(r, FALSE)

ProviderTopics ==
    { <<"A","I">>, <<"A","I"," ","t","e","a","m">>, <<"x">>,
      <<"m","a","r","k","e","t","i","n","g">> }

\* how one chat-completions call ends: status 200 and the expected JSON; another
\* status; status 200 and a body without choices[0].message.content (or no JSON);
\* a timeout; any other exception of the client
ProviderOutcomes == {"ok", "non_200", "malformed_body", "timeout", "exception"}

\* how the Hugging Face call ends.  Its reply is never parsed: the bytes of a 200
\* reply are base64-encoded as they are
HfOutcomes == {"status_200", "non_200", "timeout", "exception"}

\* the function raised an exception
Raise == [kind |-> "raise"]

\* api/index.py generate_content_with_openrouter
generate_content_with_openrouter(t, key, httpx, o) ==
    LET body == IF ~key \/ ~httpx THEN generate_mock_content(t)
                ELSE IF o = "ok"
                     THEN Result("openrouter-mistral", <<"choices[0].message.content">>,
                                 generate_hashtags_for_topic(t), get_fallback_image(t))
                     ELSE Raise
    IN  IF body = Raise THEN generate_mock_content(t) ELSE body

\* api/index.py generate_image_with_huggingface; "" stands for None, which the
\* caller's `if image_url:` does not tell from it
generate_image_with_huggingface(t, httpx, o) ==
    IF ~httpx THEN ""
    ELSE IF o = "status_200" THEN "data:image/png;base64,<response.content>"
    ELSE ""

\* api/index.py generate_image_for_topic
generate_image_for_topic(t, token, httpx, o) ==
    LET image_url == IF token /\ httpx THEN generate_image_with_huggingface(t, httpx, o)
                     ELSE ""
    IN  IF image_url # "" THEN image_url ELSE get_fallback_image(t)

\* ModelManager._generate_placeholder_image: image_services[md5(topic) % 4]
_generate_placeholder_image(t) ==
    LET image_services ==
            << "https://images.unsplash.com/photo-1560472354-b33ff0c44a43",
               "https://images.unsplash.com/photo-1551434678-e076c223a692",
               "https://images.unsplash.com/photo-1552664730-d307ca884978",
               "https://images.unsplash.com/photo-1507003211169-0a1dd7228f2d" >>
        \* int(hashlib.md5(topic.encode()).hexdigest(), 16) % 4 of the four topics
        topic_hash_mod == (<<"A","I">> :> 1) @@ (<<"A","I"," ","t","e","a","m">> :> 0)
                          @@ (<<"x">> :> 2) @@ (<<"m","a","r","k","e","t","i","n","g">> :> 3)
    IN  image_services[topic_hash_mod[t] + 1]

\* the HTTP calls of one run of _generate_with_openrouter, in the order they are made:
\* content, hashtags, DALL-E 3, DALL-E 2.  A call that is not reached is "not_made".
NoCalls ==
    [content |-> "not_made", hashtags |-> "not_made",
     dalle3 |-> "not_made", dalle2 |-> "not_made"]

Attempts ==
    { a \in [content : ProviderOutcomes, hashtags : ProviderOutcomes \cup {"not_made"},
             dalle3 : ProviderOutcomes \cup {"not_made"},
             dalle2 : ProviderOutcomes \cup {"not_made"}] :
        /\ (a.hashtags = "not_made") <=> (a.content # "ok")
        /\ (a.dalle3 = "not_made") <=> (a.hashtags \notin {"ok", "non_200"})
        /\ (a.dalle2 = "not_made") <=> (a.dalle3 \in {"ok", "not_made"}) }

\* ModelManager._generate_image_with_openrouter: DALL-E 3, then DALL-E 2, then the
\* placeholder; "ok" is a 200 reply whose content holds a URL
_generate_image_with_openrouter(t, key, aiohttp, a) ==
    IF ~key \/ ~aiohttp THEN _generate_placeholder_image(t)
    ELSE IF a.dalle3 = "ok" THEN "urls[0] of openai/dall-e-3"
    ELSE IF a.dalle2 = "ok" THEN "urls[0] of openai/dall-e-2"
    ELSE _generate_placeholder_image(t)

\* ModelManager._generate_with_openrouter: raises without a key, without aiohttp,
\* when the content call fails and when the hashtag call fails other than by status
_generate_with_openrouter(t, key, aiohttp, a) ==
    IF ~key \/ ~aiohttp \/ a.content # "ok" \/ a.hashtags \notin {"ok", "non_200"}
    THEN Raise
    ELSE Result("openrouter-mistral", <<"choices[0].message.content">>,
                IF a.hashtags = "ok" THEN << Tag("choices[0].message.content") >>
                ELSE << Tag(SelectSeq(t, LAMBDA c : c # " ")), Tag("LinkedIn"),
                        Tag("Professional"), Tag("Growth") >>,
                _generate_image_with_openrouter(t, key, aiohttp, a))

\* ModelManager._generate_mock_content
_generate_mock_content(t) ==
    Result("mock",
           <<"Here are professional insights about ">> \o t \o <<". This content ...">>,
           << Tag("AI"), Tag("LinkedIn"), Tag("ContentCreation"), Tag("Productivity"),
              Tag("DigitalMarketing"), Tag("Innovation") >>,
           _generate_placeholder_image(t))

\* the local models _load_local_models tries to load
LOCAL_MODELS == {"mistral-7b", "qwen"}

\* ModelManager.load_models: self.models and self.local_models after it.  loadable are
\* the local models from_pretrained delivers (none without transformers); when
\* rag_pipeline.initialize() raises, the except branch leaves {'openrouter'} and no
\* local model was loaded.  'openrouter' is in self.models on both paths.
load_models(loadable, openai_key, rag_ok) ==
    IF rag_ok
    THEN [models |-> {"rag", "openrouter"} \cup loadable
                       \cup (IF openai_key THEN {"openai"} ELSE {}),
          local_models |-> loadable]
    ELSE [models |-> {"openrouter"}, local_models |-> {}]

\* the calls of a run of _generate_with_local_model: the image requests only
LocalAttempts ==
    { a \in [content : {"not_made"}, hashtags : {"not_made"},
             dalle3 : ProviderOutcomes, dalle2 : ProviderOutcomes \cup {"not_made"}] :
        (a.dalle2 = "not_made") <=> (a.dalle3 = "ok") }

\* ModelManager._generate_with_local_model: local is how model.generate ends, with
\* hashtags in its output, without, or with an exception, which is raised again
_generate_with_local_model(t, model_name, local, key, aiohttp, a) ==
    IF local = "raise" THEN Raise
    ELSE Result(model_name, <<"generated_text[len(prompt):]">>,
                IF local = "ok" THEN << Tag("hashtag_content") >>
                ELSE << Tag(SelectSeq(t, LAMBDA c : c # " ")), Tag("LinkedIn"),
                        Tag("Professional"), Tag("Growth") >>,
                _generate_image_with_openrouter(t, key, aiohttp, a))

\* ModelManager._generate_with_openai: the OpenAI client answers, or anything in the
\* function raises and the mock content is returned
_generate_with_openai(t, key, aiohttp, openai, a) ==
    IF openai = "ok"
    THEN Result("openai-gpt", <<"choices[0].message.content">>,
                << Tag("choices[0].message.content") >>,
                _generate_image_with_openrouter(t, key, aiohttp, a))
    ELSE _generate_mock_content(t)

\* the try body of ModelManager.generate_content: the first branch whose condition
\* holds.  env is what the environment decided: the OpenRouter key and aiohttp, what
\* load_models left in models and local_models, and how the local generation and the
\* OpenAI client end.
generate_content_try(t, env, first) ==
    IF env.local_models # {}
    THEN _generate_with_local_model(t, IF "mistral-7b" \in env.local_models
                                       THEN "mistral-7b" ELSE "qwen",
                                    env.local, env.key, env.lib, first)
    ELSE IF "openrouter" \in env.models
    THEN _generate_with_openrouter(t, env.key, env.lib, first)
    ELSE IF "openai" \in env.models
    THEN _generate_with_openai(t, env.key, env.lib, env.openai, first)
    ELSE _generate_mock_content(t)

\* the mutant: generate_content without its except branch
generate_content_unguarded(t, env, first, retry) == generate_content_try(t, env, first)

\* ModelManager.generate_content: the try body; the except branch runs
\* _generate_with_openrouter again and falls back to the mock content.
generate_content(t, env, first, retry) ==
    LET body == generate_content_try(t, env, first)
        again == _generate_with_openrouter(t, env.key, env.lib, retry)
    IN  IF body # Raise THEN body
        ELSE IF again # Raise THEN again
        ELSE _generate_mock_content(t)

\* One generation call is made in a run: a call reads nothing an earlier call wrote
\* but self.loaded, self.models and self.local_models, which load_models sets once.
ProviderInit ==
    /\ topic \in ProviderTopics /\ last = NoCall /\ prev = NoCall
    /\ DbIdle /\ MODEL_MANAGER_AVAILABLE = FALSE /\ http = NoRequest /\ ProviderIdle
    /\ StreamIdle /\ ServicesIdle

\* a generation call was made with the inputs `with`; failed says that the provider
\* did not deliver what the call asked it for
Generated(fn, with, failed, raised, result) ==
    /\ gen' = [fn |-> fn, with |-> with, failed |-> failed, raised |-> raised,
               result |-> result]
    /\ UNCHANGED <<contentVars, dbVars, MODEL_MANAGER_AVAILABLE, http, streamVars, serviceVars>>

CallGenerateContentWithOpenrouter ==
    /\ gen.fn = "none"
    /\ \E key, httpx \in BOOLEAN, o \in ProviderOutcomes :
        LET result == generate_content_with_openrouter(topic, key, httpx, o)
        IN  /\ Generated("generate_content_with_openrouter",
                         [key |-> key, lib |-> httpx, call |-> o],
                         ~key \/ ~httpx \/ o # "ok", result = Raise, result)
            /\ UNCHANGED loaded

CallGenerateImageForTopic ==
    /\ gen.fn = "none"
    /\ \E token, httpx \in BOOLEAN, o \in HfOutcomes :
        /\ Generated("generate_image_for_topic",
                     [key |-> token, lib |-> httpx, call |-> o],
                     ~token \/ ~httpx \/ o # "status_200", FALSE,
                     generate_image_for_topic(topic, token, httpx, o))
        /\ UNCHANGED loaded

\* `if not self.loaded: await self.load_models()`, then the generation.  A run makes
\* HTTP calls only with a key and the library, the local generation runs only with a
\* local model, and the second OpenRouter run is made only when the try body raised.
CallModelManagerGenerateContent ==
    /\ gen.fn = "none"
    /\ \E key, aiohttp, openai_key, rag_ok \in BOOLEAN, loadable \in SUBSET LOCAL_MODELS :
         LET l == load_models(loadable, openai_key, rag_ok)
             http_calls == key /\ aiohttp
         IN  \E local \in IF l.local_models = {} THEN {"not_run"}
                          ELSE {"ok", "no_hashtags", "raise"},
                openai \in IF "openai" \in l.models THEN {"ok", "error"} ELSE {"not_run"} :
               LET env == [key |-> key, lib |-> aiohttp, models |-> l.models,
                           local_models |-> l.local_models, local |-> local,
                           openai |-> openai]
               IN  \E first \in IF local \in {"ok", "no_hashtags"} /\ http_calls
                                THEN LocalAttempts
                                ELSE IF local = "not_run" /\ http_calls THEN Attempts
                                ELSE {NoCalls} :
                     LET raised1 == generate_content_try(topic, env, first) = Raise
                     IN  \E retry \in IF http_calls /\ raised1 THEN Attempts ELSE {NoCalls} :
                           LET result == generate_content(topic, env, first, retry)
                               raised2 == _generate_with_openrouter(
                                              topic, key, aiohttp, retry) = Raise
                           IN  /\ Generated("ModelManager.generate_content",
                                            env @@ [first |-> first, retry |-> retry,
                                                    openai_key |-> openai_key],
                                            raised1 /\ raised2, result = Raise, result)
                               /\ loaded' = TRUE

\* the mutant: DALL-E 2 is asked before DALL-E 3
image_models_swapped == <<"openai/dall-e-2", "openai/dall-e-3">>

\* the "model" of the two requests of _generate_image_with_openrouter, in the order
\* of the code
image_models == <<"openai/dall-e-3", "openai/dall-e-2">>

\* how one image request ends: as a chat-completions call does, where "ok" is a 200
\* reply whose content holds a URL, or with a 200 reply in which no URL is found
ImageOutcomes == ProviderOutcomes \cup {"no_url"}

\* urls[0] of the reply of a model
ImageUrl ==
    ("openai/dall-e-3" :> "urls[0] of openai/dall-e-3")
    @@ ("openai/dall-e-2" :> "urls[0] of openai/dall-e-2")

\* simple_server.py generate_image calls _generate_image_with_openrouter(topic,
\* content); the function runs up to its first request.  Without a key it returns the
\* placeholder; without aiohttp the NameError of aiohttp.ClientSession() is caught by
\* the outer except, which returns the placeholder.
ImageCall ==
    /\ img.pc \in {"idle", "returned"}
    /\ \E key, aiohttp \in BOOLEAN :
          img' = IF ~key \/ ~aiohttp
                 THEN [pc |-> "returned", key |-> key, lib |-> aiohttp, requested |-> <<>>,
                       url |-> _generate_placeholder_image(topic)]
                 ELSE [pc |-> "requesting", key |-> key, lib |-> aiohttp,
                       requested |-> <<>>, url |-> ""]
    /\ UNCHANGED <<contentVars, dbVars, serverVars, conns, call, scheduled_posts, view,
                   memoryVars>>

\* one session.post of _generate_image_with_openrouter and what follows it: return
\* urls[0], go on to the next model, or return the placeholder after the last one
ImageRequest ==
    /\ img.pc = "requesting"
    /\ \E o \in ImageOutcomes :
          LET k == Len(img.requested) + 1
              model == image_models[k]
              requested == Append(img.requested, [model |-> model, outcome |-> o])
          IN  img' = IF o = "ok"
                     THEN [img EXCEPT !.pc = "returned", !.requested = requested,
                                      !.url = ImageUrl[model]]
                     ELSE IF k = Len(image_models)
                     THEN [img EXCEPT !.pc = "returned", !.requested = requested,
                                      !.url = _generate_placeholder_image(topic)]
                     ELSE [img EXCEPT !.requested = requested]
    /\ UNCHANGED <<contentVars, dbVars, serverVars, conns, call, scheduled_posts, view,
                   memoryVars>>

ProviderNext ==
    \/ CallGenerateContentWithOpenrouter
    \/ CallGenerateImageForTopic
    \/ CallModelManagerGenerateContent

SpecProvider == ProviderInit /\ [][ProviderNext]_vars

\* the runs of _generate_image_with_openrouter, request by request
ImageNext == ImageCall \/ ImageRequest

SpecImage == ProviderInit /\ [][ImageNext]_vars

\* a content object with every part filled in
Complete(r) ==
    /\ r.text # <<>> /\ r.image_url # ""
    /\ r.hashtags # <<>> /\ \A k \in 1..Len(r.hashtags) : r.hashtags[k][1] = "#"

GeneratorOrder == <<"mistral-7b", "qwen", "openrouter-mistral", "openai-gpt", "mock">>

\* the generator could not be used in the call: it is not loaded or has no key, or it
\* was run and failed
Unavailable(g) ==
    LET w == gen.with
    IN  CASE g \in LOCAL_MODELS -> g \notin w.local_models \/ w.local = "raise"
          [] g = "openrouter-mistral" ->
                \/ ~w.key \/ ~w.lib
                \/ /\ _generate_with_openrouter(topic, w.key, w.lib, w.first) = Raise
                   /\ _generate_with_openrouter(topic, w.key, w.lib, w.retry) = Raise
          [] g = "openai-gpt" -> ~w.openai_key
          [] OTHER -> FALSE

\* C16 as stated: generate_content uses the best available generator in the order
\* mistral-7b, qwen, OpenRouter, OpenAI, mock: the generator that produced the content
\* is one before which every generator is unavailable, and without local models and
\* without an OpenRouter key but with an OpenAI key the content comes from OpenAI.
C16_Priority ==
    gen.fn = "ModelManager.generate_content" =>
        /\ \A i, j \in 1..Len(GeneratorOrder) :
              (gen.result.fn = GeneratorOrder[i] /\ j < i) => Unavailable(GeneratorOrder[j])
        /\ (gen.with.local_models = {} /\ ~gen.with.key /\ gen.with.openai_key
              /\ "openai" \in gen.with.models) =>
              gen.result.fn = "openai-gpt"

\* the requests one run of _generate_image_with_openrouter has made so far are
\* DALL-E 3, then DALL-E 2, and DALL-E 2 only after DALL-E 3 gave no URL
DalleOrder ==
    /\ Len(img.requested) <= 2
    /\ \A k \in 1..Len(img.requested) :
          img.requested[k].model = <<"openai/dall-e-3", "openai/dall-e-2">>[k]
    /\ Len(img.requested) = 2 => img.requested[1].outcome # "ok"
    /\ ~img.key => img.requested = <<>>

\* the run returned, and a URL
ReturnsUrl ==
    img.pc = "returned" =>
        img.url \in {ImageUrl["openai/dall-e-3"], ImageUrl["openai/dall-e-2"],
                     _generate_placeholder_image(topic)}

\* both models were asked and neither gave a URL
BothFailed ==
    /\ Len(img.requested) = 2
    /\ img.requested[1].outcome # "ok" /\ img.requested[2].outcome # "ok"

\* C11 as stated: DALL-E 3 first, DALL-E 2 only after DALL-E 3 produced no URL, the
\* placeholder only after both produced no URL or without an API key (and then no
\* request is made), and the function always returns a URL.
C11_Original ==
    /\ DalleOrder /\ ReturnsUrl
    /\ (img.pc = "returned" /\ img.url = _generate_placeholder_image(topic)) =>
          BothFailed \/ (~img.key /\ img.requested = <<>>)

\* C11: _generate_image_with_openrouter asks DALL-E 3 first and DALL-E 2 only after
\* DALL-E 3 produced no URL; it returns the placeholder only after both produced no
\* URL, or without having asked either model when no API key is configured or when
\* aiohttp could not be imported; it always returns a URL and never raises.
C11_DalleOrder ==
    /\ DalleOrder /\ ReturnsUrl
    /\ (img.pc = "returned" /\ img.url = _generate_placeholder_image(topic)) =>
          \/ BothFailed
          \/ ~img.key /\ img.requested = <<>>
          \/ img.key /\ ~img.lib /\ img.requested = <<>>
    /\ (img.pc = "returned" /\ img.key /\ img.lib) =>
          \/ img.requested[1].outcome = "ok" /\ img.url = ImageUrl["openai/dall-e-3"]
          \/ /\ Len(img.requested) = 2 /\ img.requested[2].outcome = "ok"
             /\ img.url = ImageUrl["openai/dall-e-2"]
          \/ BothFailed /\ img.url = _generate_placeholder_image(topic)

\* DALL-E 3 timed out, DALL-E 2 was asked and its URL was returned
C11_Witness ==
    /\ img.pc = "returned" /\ Len(img.requested) = 2
    /\ img.requested[1].outcome = "timeout" /\ img.requested[2].outcome = "ok"
    /\ img.url = ImageUrl["openai/dall-e-2"]

(***************************************************************************)
(* simple_server.py: the pipeline streams.  POST /api/v1/pipeline/generate *)
(* registers a stream and queues generate_content_pipeline; the consumers  *)
(* of GET /api/v1/pipeline/stream/{stream_id} poll the stream's event list.*)
(* All of it runs on one event loop, so a coroutine is interrupted only    *)
(* where it suspends: at the awaits that wait (generate_content,           *)
(* asyncio.sleep) and at each yield of event_generator.  await             *)
(* send_event(...) and await model_manager.load_models() do not suspend:   *)
(* no coroutine they run waits.  One action is the code between two        *)
(* suspension points.                                                      *)
(*                                                                         *)
(* active_streams holds the keys of the dict, stream_data the dict object  *)
(* of each stream_id, which the coroutines that hold a reference to it     *)
(* keep using after the key is deleted.                                    *)
(***************************************************************************)

\* str(uuid.uuid4()): an id that no earlier call returned.  The ids are numbered in
\* the order in which uuid4 returns them.
uuid4 == { id \in StreamIds : id = Len(issued) + 1 }

\* the mutant: the handler leaves the registration to the background task
register_nothing(streams, stream_id) == streams

\* active_streams[stream_id] = {...}
register(streams, stream_id) == streams \cup {stream_id}

\* the mutant: events.insert(0, event)
send_event_first(events, event) == <<event>> \o events

\* send_event: active_streams[stream_id]["events"].append(event)
send_event(events, event) == Append(events, event)

\* the mutant: the hashtag step runs before the image step
PipelineEventsHashtagsFirst ==
    [queued   |-> <<"draft running">>,
     drafting |-> <<"text", "draft done", "hashtags running">>,
     imaging  |-> <<"hashtags", "hashtags done", "image running">>,
     tagging  |-> <<"image", "image done", "complete">>]

\* the events generate_content_pipeline sends when it resumes from each of its
\* suspension points, up to the next one
PipelineEvents ==
    [queued   |-> <<"draft running">>,
     drafting |-> <<"text", "draft done", "image running">>,
     imaging  |-> <<"image", "image done", "hashtags running">>,
     tagging  |-> <<"hashtags", "hashtags done", "complete">>]

\* the suspension point that follows each one
NextPoint ==
    [queued |-> "drafting", drafting |-> "imaging",
     imaging |-> "tagging", tagging |-> "finished"]

\* the requests made so far
Requests == Len(issued) + Cardinality({ c \in Consumers : con[c].pc # "idle" })

\* the task of stream s sends the events new, one send_event each, and its status
\* becomes status; send_event appends only while the key is in active_streams.
\* grew marks the consumers whose for loop was on the list when it grew
Sends(s, new, status) ==
    LET appended[k \in 0..Len(new)] ==
            IF k = 0 THEN stream_data[s].events
            ELSE send_event(appended[k - 1], new[k])
    IN  /\ stream_data' = [stream_data EXCEPT
                             ![s] = [status |-> status,
                                     events |-> IF s \in active_streams
                                                THEN appended[Len(new)] ELSE @.events]]
        /\ log' = [log EXCEPT ![s] = IF s \in active_streams THEN @ \o new ELSE @]
        /\ con' = [c \in Consumers |->
                     IF /\ s \in active_streams /\ con[c].pc = "iter"
                        /\ con[c].sid = s /\ ~con[c].detached
                     THEN [con[c] EXCEPT !.grew = TRUE] ELSE con[c]]

StreamInit ==
    /\ MODEL_MANAGER_AVAILABLE \in BOOLEAN /\ loaded = FALSE /\ gen = [fn |-> "none"]
    /\ http = NoRequest /\ ContentIdle /\ DbIdle /\ StreamIdle /\ ServicesIdle

\* POST /api/v1/pipeline/generate: the handler registers the stream, queues the
\* background task and returns the stream_id
GenerateContent ==
    \E stream_id \in uuid4 :
        /\ Requests < MaxRequests
        /\ active_streams' = register(active_streams, stream_id)
        /\ stream_data' = [stream_data EXCEPT
                             ![stream_id] = [status |-> "starting", events |-> <<>>]]
        /\ task' = [task EXCEPT ![stream_id] = "queued"]
        /\ issued' = Append(issued, stream_id)
        /\ UNCHANGED <<con, cleanup, log, MODEL_MANAGER_AVAILABLE, serviceVars, loaders, loaded, gen, http,
                       contentVars, dbVars>>

\* the mutant: load_models returns without `self.loaded = True`
loaded_unset(was_loaded) == was_loaded

\* self.loaded after load_models: `self.loaded = True` at the end of the try body and
\* in its except clause
loaded_set(was_loaded) == TRUE

\* generate_content_pipeline starts and runs to its first suspension point.  With a
\* model manager that is not loaded it sends "initialization running", runs
\* load_models and sends "initialization done": send_event, load_models,
\* rag_pipeline.initialize and _load_local_models hold no await that suspends, so no
\* other task runs between the check of model_manager.loaded and the end of
\* load_models.  Then "draft running" and, with a model manager, generate_content,
\* which checks self.loaded again before it suspends in its generation; without one
\* the task suspends in asyncio.sleep(2).
PipelineStart(s) ==
    LET initialize == MODEL_MANAGER_AVAILABLE /\ ~loaded
        initialized == IF initialize THEN loaded_set(loaded) ELSE loaded
        again == MODEL_MANAGER_AVAILABLE /\ ~initialized
    IN  /\ task[s] = "queued"
        /\ Sends(s, (IF initialize THEN <<"initialization running", "initialization done">>
                     ELSE <<>>) \o PipelineEvents.queued,
                 stream_data[s].status)
        /\ loaded' = IF again THEN loaded_set(initialized) ELSE initialized
        /\ loaders' = IF initialize \/ again THEN loaders \cup {s} ELSE loaders
        /\ task' = [task EXCEPT ![s] = NextPoint.queued]
        /\ UNCHANGED <<active_streams, cleanup, issued, MODEL_MANAGER_AVAILABLE, serviceVars,
                       gen, http, contentVars, dbVars>>

\* the await returns and the task runs to its next suspension point, or to its end,
\* where it sets the status "complete".  After generate_content comes the model_info
\* event.  (The warning event takes its place when generate_content raised, which it
\* does not do for a topic that is a str.)
PipelineStep(s) ==
    /\ task[s] \in {"drafting", "imaging", "tagging"}
    /\ Sends(s, (IF task[s] = "drafting" /\ MODEL_MANAGER_AVAILABLE
                 THEN <<"model_info">> ELSE <<>>) \o PipelineEvents[task[s]],
             IF task[s] = "tagging" THEN "complete" ELSE stream_data[s].status)
    /\ task' = [task EXCEPT ![s] = NextPoint[task[s]]]
    /\ UNCHANGED <<active_streams, cleanup, issued, MODEL_MANAGER_AVAILABLE, serviceVars,
                   loaders, loaded, gen, http, contentVars, dbVars>>

\* an exception reaches the outer `except Exception`: the error event, status "error".
\* (An exception of generate_content is caught before, by the inner try.)
PipelineFails(s) ==
    /\ task[s] \in {"imaging", "tagging"}
          \/ (task[s] = "drafting" /\ ~MODEL_MANAGER_AVAILABLE)
    /\ Sends(s, <<"error">>, "error")
    /\ task' = [task EXCEPT ![s] = "failed"]
    /\ UNCHANGED <<active_streams, cleanup, issued, MODEL_MANAGER_AVAILABLE, serviceVars,
                   loaders, loaded, gen, http, contentVars, dbVars>>

\* GET /api/v1/pipeline/stream/{stream_id}: "Stream not found", or the
\* StreamingResponse over a new event_generator.  known: the id had been returned
\* by a generate request and its stream had not been cleaned up.  The consumers
\* are numbered in the order of their requests.
StreamPipelineEvents(c, stream_id) ==
    /\ con[c].pc = "idle" /\ Requests < MaxRequests
    /\ \A d \in Consumers : d < c => con[d].pc # "idle"
    /\ con' = [con EXCEPT ![c] =
                 [@ EXCEPT !.pc = IF stream_id \in active_streams THEN "poll" ELSE "notfound",
                           !.sid = stream_id,
                           !.known = /\ \E k \in 1..Len(issued) : issued[k] = stream_id
                                     /\ cleanup[stream_id] # "done"]]
    /\ UNCHANGED <<active_streams, stream_data, task, cleanup, issued, log,
                   MODEL_MANAGER_AVAILABLE, serviceVars, loaders, loaded, gen, http, contentVars, dbVars>>

\* asyncio.create_task(cleanup_stream(stream_id, delay=30))
CreateCleanupTask(s) == [cleanup EXCEPT ![s] = IF @ = "none" THEN "sleeping" ELSE @]

\* event_generator at the top of its while loop, first or after the sleep: it ends
\* when the key is gone; with events in the list it starts the for loop and yields
\* the first one; with none it breaks on status "complete" or sleeps again
EventGeneratorPoll(c) ==
    LET s == con[c].sid
        events == stream_data[s].events
    IN  /\ con[c].pc = "poll"
        /\ IF s \notin active_streams
           THEN con' = [con EXCEPT ![c].pc = "ended"] /\ UNCHANGED cleanup
           ELSE IF events # <<>>
           THEN /\ con' = [con EXCEPT ![c] =
                             [@ EXCEPT !.pc = "iter", !.idx = 1,
                                       !.emitted = Append(@, events[1])]]
                /\ UNCHANGED cleanup
           ELSE IF stream_data[s].status = "complete"
           THEN con' = [con EXCEPT ![c].pc = "ended"] /\ cleanup' = CreateCleanupTask(s)
           ELSE UNCHANGED <<con, cleanup>>
        /\ UNCHANGED <<active_streams, stream_data, task, issued, log,
                       MODEL_MANAGER_AVAILABLE, serviceVars, loaders, loaded, gen, http, contentVars, dbVars>>

\* event_generator resumes after a yield.  The for loop iterates the list object it
\* started on: the stream's list, or the old one when another consumer has put a
\* new list in its place.  With an element left it yields it; at the end of the
\* list it does stream_data["events"] = [], breaks on status "complete" or sleeps
EventGeneratorResume(c) ==
    LET s == con[c].sid
        list == IF con[c].detached THEN con[c].old ELSE stream_data[s].events
        done == stream_data[s].status = "complete"
    IN  /\ con[c].pc = "iter"
        /\ IF con[c].idx < Len(list)
           THEN /\ con' = [con EXCEPT ![c] =
                             [@ EXCEPT !.idx = @ + 1,
                                       !.emitted = Append(@, list[con[c].idx + 1])]]
                /\ UNCHANGED <<stream_data, cleanup>>
           ELSE /\ stream_data' = [stream_data EXCEPT ![s].events = <<>>]
                /\ con' = [d \in Consumers |->
                             IF d = c
                             THEN [con[c] EXCEPT !.pc = IF done THEN "ended" ELSE "poll",
                                                 !.idx = 0, !.detached = FALSE,
                                                 !.old = <<>>]
                             ELSE IF con[d].pc = "iter" /\ con[d].sid = s /\ ~con[d].detached
                             THEN [con[d] EXCEPT !.detached = TRUE,
                                                 !.old = stream_data[s].events]
                             ELSE con[d]]
                /\ cleanup' = IF done THEN CreateCleanupTask(s) ELSE cleanup
        /\ UNCHANGED <<active_streams, task, issued, log,
                       MODEL_MANAGER_AVAILABLE, serviceVars, loaders, loaded, gen, http, contentVars, dbVars>>

\* cleanup_stream after its sleep: del active_streams[stream_id]
CleanupStream(s) ==
    /\ cleanup[s] = "sleeping"
    /\ cleanup' = [cleanup EXCEPT ![s] = "done"]
    /\ active_streams' = active_streams \ {s}
    /\ UNCHANGED <<stream_data, task, con, issued, log,
                   MODEL_MANAGER_AVAILABLE, serviceVars, loaders, loaded, gen, http, contentVars, dbVars>>

StreamNext ==
    \/ GenerateContent
    \/ \E s \in StreamIds : PipelineStart(s)
    \/ \E s \in StreamIds : PipelineStep(s)
    \/ \E s \in StreamIds : PipelineFails(s)
    \/ \E c \in Consumers, s \in StreamIds : StreamPipelineEvents(c, s)
    \/ \E c \in Consumers : EventGeneratorPoll(c)
    \/ \E c \in Consumers : EventGeneratorResume(c)
    \/ \E s \in StreamIds : CleanupStream(s)

SpecStream == StreamInit /\ [][StreamNext]_vars

\* the consumers that read stream s
Readers(s) == { c \in Consumers : con[c].sid = s /\ con[c].pc \in {"poll", "iter", "ended"} }

\* the events of its stream that consumer c has still to emit: the rest of the list
\* its for loop is on, or the whole list
Unsent(c) ==
    LET events == stream_data[con[c].sid].events
    IN  IF con[c].pc = "iter" THEN SubSeq(events, con[c].idx + 1, Len(events)) ELSE events

\* C8: while a stream has one consumer, the events emitted to it followed by the
\* events still in the list are the events send_event appended, in append order:
\* each is emitted once, none is lost or repeated, also when the list grows while
\* the consumer is between two yields.  The generator ends only after it has
\* emitted every event, the last of them 'complete'.
C8_ExactlyOnceInOrder ==
    \A s \in StreamIds : \A c \in Consumers :
        Readers(s) = {c} =>
            /\ con[c].emitted \o Unsent(c) = log[s]
            /\ con[c].pc = "ended" =>
                  /\ con[c].emitted = log[s]
                  /\ con[c].emitted # <<>>
                  /\ con[c].emitted[Len(con[c].emitted)] = "complete"

\* the only consumer of a finished stream has ended, and the list grew while it was
\* between two yields
C8_Witness ==
    \E s \in StreamIds : \E c \in Consumers :
        /\ Readers(s) = {c} /\ con[c].pc = "ended" /\ con[c].grew
        /\ task[s] = "finished" /\ con[c].emitted = log[s]

\* the order of the step events of a run
PipelineOrder ==
    <<"draft running", "text", "draft done", "image running", "image", "image done",
      "hashtags running", "hashtags", "hashtags done", "complete">>

\* the step events appended to stream s, in append order
StepEvents(s) == SelectSeq(log[s], LAMBDA e : e \in Range(PipelineOrder))

\* C9: in a run of generate_content_pipeline that has not failed, the step events
\* appended so far are the first ones of the order draft running, text, draft done,
\* image running, image, image done, hashtags running, hashtags, hashtags done,
\* complete, and no error event is appended; when the run has ended, all ten are
\* appended, 'complete' is the last event of the stream and the status is "complete".
C9_PipelineOrder ==
    \A s \in StreamIds :
        task[s] # "failed" =>
            /\ Len(StepEvents(s)) <= Len(PipelineOrder)
            /\ StepEvents(s) = SubSeq(PipelineOrder, 1, Len(StepEvents(s)))
            /\ "error" \notin Range(log[s])
            /\ task[s] = "finished" =>
                  /\ StepEvents(s) = PipelineOrder
                  /\ log[s][Len(log[s])] = "complete"
                  /\ stream_data[s].status = "complete"

\* a run with the initialization and model_info events between the step events ended
C9_Witness ==
    \E s \in StreamIds :
        /\ task[s] = "finished" /\ StepEvents(s) = PipelineOrder
        /\ Len(log[s]) = Len(PipelineOrder) + 3

\* C10: a GET for a stream_id that a generate request had returned and whose stream
\* had not been cleaned up is never answered "Stream not found": a returned
\* stream_id is a key of active_streams until its cleanup, also before the
\* background task has started.  No stream_id is returned twice.
C10_RegisteredBeforeResponse ==
    /\ \A c \in Consumers : con[c].pc = "notfound" => ~con[c].known
    /\ \A k \in 1..Len(issued) :
          cleanup[issued[k]] # "done" => issued[k] \in active_streams
    /\ \A j, k \in 1..Len(issued) : j # k => issued[j] # issued[k]

\* two stream_ids are returned, and a GET for one of them was answered with the
\* stream before its background task had started
C10_Witness ==
    /\ Len(issued) = 2
    /\ \E c \in Consumers :
          con[c].known /\ con[c].pc = "poll" /\ task[con[c].sid] = "queued"

\* the events consumer c will still yield from the list its for loop is on
Pending(c) ==
    IF con[c].pc # "iter" THEN <<>>
    ELSE LET list == IF con[c].detached THEN con[c].old ELSE stream_data[con[c].sid].events
         IN  SubSeq(list, con[c].idx + 1, Len(list))

\* C24 as stated: with two consumers on one stream no event is lost: every event that
\* send_event appended has been emitted to one of the consumers, or is still in the
\* stream's list or ahead in the list a consumer is iterating.
C24_NoEventLost ==
    \A s \in StreamIds :
        Cardinality(Readers(s)) = 2 =>
            \A k \in 1..Len(log[s]) :
                \/ \E c \in Readers(s) : log[s][k] \in Range(con[c].emitted) \cup Range(Pending(c))
                \/ log[s][k] \in Range(stream_data[s].events)

\* the event loop runs every coroutine that is ready: the background task of a
\* stream, each event_generator (its client keeps reading), each cleanup_stream
\* after its sleep.  Requests come as the clients please.
StreamFairness ==
    /\ \A s \in StreamIds : WF_vars(PipelineStart(s))
    /\ \A s \in StreamIds : WF_vars(PipelineStep(s) \/ PipelineFails(s))
    /\ \A c \in Consumers : WF_vars(EventGeneratorPoll(c))
    /\ \A c \in Consumers : WF_vars(EventGeneratorResume(c))
    /\ \A s \in StreamIds : WF_vars(CleanupStream(s))

SpecStreamLive == SpecStream /\ StreamFairness

\* C25 as stated: once the pipeline of a stream has finished, with status "complete"
\* or with status "error", the stream's key is eventually removed from active_streams
\* and every event_generator of the stream eventually ends.
C25_FinishedStreamsRemoved ==
    \A s \in StreamIds :
        (task[s] \in {"finished", "failed"}) ~>
            /\ s \notin active_streams
            /\ \A c \in Consumers : (con[c].sid = s /\ con[c].pc # "notfound") => con[c].pc = "ended"


(***************************************************************************)
(* execute_query of app/db/database.py, call by call of the driver.  Every *)
(* connection psycopg2.connect returned is kept with the calls made on it, *)
(* in order.  Two processes call execute_query; each call of the driver    *)
(* ends as the driver decides: it succeeds, it raises a psycopg2.Error, or *)
(* it raises another exception.                                            *)
(***************************************************************************)

\* database: how many calls of execute_query a run has
MaxCalls == 3

\* the parameter fetch: "one", "all" or None
FetchModes == {"one", "all", "none"}

\* the mutant: get_db_connection hands out the connection of the call before
psycopg2_connect_pooled(cs, by, fetch) ==
    IF cs = <<>> THEN <<[open |-> TRUE, by |-> by, fetch |-> fetch, ops |-> <<>>]>>
    ELSE [cs EXCEPT ![Len(cs)].open = TRUE]

\* psycopg2.connect(...) returned a connection: a new one at every call
psycopg2_connect(cs, by, fetch) ==
    Append(cs, [open |-> TRUE, by |-> by, fetch |-> fetch, ops |-> <<>>])

\* the mutant: a psycopg2.Error of the statement or of the fetch is followed by the
\* commit
try_body_commits(step, o, fetch) ==
    IF o = "psycopg2.Error" THEN (IF step = "commit" THEN "rollback" ELSE "commit")
    ELSE IF o = "Exception" THEN "close"
    ELSE IF step = "execute" THEN (IF fetch = "none" THEN "commit" ELSE "fetch")
    ELSE IF step = "fetch" THEN "commit"
    ELSE "close"

\* where execute_query goes after a call of its try body ended with o: to the except
\* clause (rollback), to the finally clause (close) with the exception or the result,
\* or to the next call of the body
try_body(step, o, fetch) ==
    IF o = "psycopg2.Error" THEN "rollback"
    ELSE IF o = "Exception" THEN "close"
    ELSE IF step = "execute" THEN (IF fetch = "none" THEN "commit" ELSE "fetch")
    ELSE IF step = "fetch" THEN "commit"
    ELSE "close"

\* the call op of caller c on its connection ended with o
Logged(c, op, o) ==
    [conns EXCEPT ![call[c].conn].ops =
        Append(@, [op |-> op, outcome |-> o, by |-> <<c, call[c].n>>])]

exceptQuery == <<contentVars, dbVars, serverVars, img, scheduled_posts, view, memoryVars>>

\* execute_query starts: conn = get_db_connection(); `return None` when it is None
GetDbConnection(c) ==
    /\ call[c].pc \in {"idle", "returned"}
    /\ call[1].n + call[2].n < MaxCalls
    /\ \E fetch \in FetchModes, o \in {"ok", "OperationalError"} :
         LET n == call[c].n + 1
             opened == psycopg2_connect(conns, <<c, n>>, fetch)
         IN  IF o = "ok"
             THEN /\ conns' = opened
                  /\ call' = [call EXCEPT ![c] = [pc |-> "execute", n |-> n,
                                                  conn |-> Len(opened), fetch |-> fetch,
                                                  ret |-> "none"]]
             ELSE /\ call' = [call EXCEPT ![c] = [pc |-> "returned", n |-> n, conn |-> 0,
                                                  fetch |-> fetch, ret |-> "None"]]
                  /\ UNCHANGED conns
    /\ UNCHANGED exceptQuery

\* one call of the try body: conn.cursor() and cur.execute, the fetch, conn.commit()
TryBody(c, step, outcomes) ==
    /\ call[c].pc = step
    /\ \E o \in outcomes :
         LET next == try_body(step, o, call[c].fetch)
         IN  /\ conns' = Logged(c, step, o)
             /\ call' = [call EXCEPT ![c].pc = next,
                                     ![c].ret = IF next # "close" THEN "none"
                                                ELSE IF o = "Exception" THEN "raise"
                                                ELSE IF call[c].fetch = "none" THEN "None"
                                                ELSE "result"]
    /\ UNCHANGED exceptQuery

CursorExecute(c) == TryBody(c, "execute", {"ok", "psycopg2.Error", "Exception"})

Fetch(c) == TryBody(c, "fetch", {"ok", "psycopg2.Error", "Exception"})

Commit(c) == TryBody(c, "commit", {"ok", "psycopg2.Error"})

\* except psycopg2.Error: conn.rollback(); return None.  On a connection the server
\* has dropped rollback() raises psycopg2.InterfaceError, which leaves the except
\* clause as an exception.
Rollback(c) ==
    /\ call[c].pc = "rollback"
    /\ \E o \in {"ok", "InterfaceError"} :
         /\ conns' = Logged(c, "rollback", o)
         /\ call' = [call EXCEPT ![c].pc = "close",
                                 ![c].ret = IF o = "ok" THEN "None" ELSE "raise"]
    /\ UNCHANGED exceptQuery

\* finally: conn.close(), and execute_query returns or raises
Close(c) ==
    /\ call[c].pc = "close"
    /\ conns' = [Logged(c, "close", "ok") EXCEPT ![call[c].conn].open = FALSE]
    /\ call' = [call EXCEPT ![c].pc = "returned"]
    /\ UNCHANGED exceptQuery

QueryNext ==
    \E c \in Callers :
        \/ GetDbConnection(c)
        \/ CursorExecute(c)
        \/ Fetch(c)
        \/ Commit(c)
        \/ Rollback(c)
        \/ Close(c)

SpecQuery == PostsInit /\ [][QueryNext]_vars

\* the calls made on a connection, by name
OpsOf(k) == [j \in 1..Len(conns[k].ops) |-> conns[k].ops[j].op]

\* the statement or the fetch on connection k raised a database error
StatementFailed(k) ==
    \E j \in 1..Len(conns[k].ops) :
        /\ conns[k].ops[j].op \in {"execute", "fetch"}
        /\ conns[k].ops[j].outcome = "psycopg2.Error"

\* commit is called only after the statement and the fetch succeeded, a database
\* error is followed by the rollback and never by a commit, and a call that could not
\* connect has executed nothing
NeverCommitsFailed ==
    /\ \A k \in 1..Len(conns) : \A j \in 1..Len(conns[k].ops) :
          LET ops == conns[k].ops
          IN  /\ ops[j].op = "commit" =>
                    /\ \A i \in 1..(j - 1) : ops[i].outcome = "ok"
                    /\ SubSeq(OpsOf(k), 1, j) =
                           IF conns[k].fetch = "none" THEN <<"execute", "commit">>
                           ELSE <<"execute", "fetch", "commit">>
              /\ (ops[j].outcome = "psycopg2.Error" /\ j < Len(ops)) =>
                    /\ ops[j + 1].op = "rollback"
                    /\ \A i \in (j + 1)..Len(ops) : ops[i].op # "commit"
    /\ \A c \in Callers :
          (call[c].pc = "returned" /\ call[c].conn = 0) =>
              /\ call[c].ret = "None"
              /\ \A k \in 1..Len(conns) : conns[k].by # <<c, call[c].n>>

\* C12 as stated: after a database error of the statement or of the fetch the call
\* has rolled back, has not committed and returns None
C12_Original ==
    /\ NeverCommitsFailed
    /\ \A c \in Callers :
          (call[c].pc = "returned" /\ call[c].conn > 0 /\ StatementFailed(call[c].conn)) =>
              /\ "rollback" \in Range(OpsOf(call[c].conn))
              /\ "commit" \notin Range(OpsOf(call[c].conn))
              /\ call[c].ret = "None"

\* C12: execute_query never commits a failed statement.  commit is issued only after
\* the statement and the fetch both succeeded; when the connection cannot be opened
\* None is returned and no statement is executed; when the statement or the fetch
\* raises a database error, rollback is called, no commit is issued, and None is
\* returned if the rollback succeeded, while an exception of the rollback itself
\* propagates to the caller.
C12_NeverCommitsFailed ==
    /\ NeverCommitsFailed
    /\ \A c \in Callers :
          (call[c].pc = "returned" /\ call[c].conn > 0 /\ StatementFailed(call[c].conn)) =>
              LET ops == conns[call[c].conn].ops
              IN  /\ "commit" \notin Range(OpsOf(call[c].conn))
                  /\ \E j \in 1..Len(ops) :
                        /\ ops[j].op = "rollback"
                        /\ call[c].ret = IF ops[j].outcome = "ok" THEN "None" ELSE "raise"

\* a call whose fetch raised a database error rolled back and returned None, and
\* another call committed after its statement and its fetch
C12_Witness ==
    \E c, d \in Callers :
        /\ call[c].pc = "returned" /\ call[c].conn > 0 /\ call[c].ret = "None"
        /\ OpsOf(call[c].conn) = <<"execute", "fetch", "rollback", "close">>
        /\ call[d].pc = "returned" /\ call[d].conn > 0 /\ call[d].ret = "result"
        /\ OpsOf(call[d].conn) = <<"execute", "fetch", "commit", "close">>

\* C13: every call of execute_query that got a connection got one of its own, only
\* that call uses it, and the connection is closed when the call has returned or
\* raised: a connection is open only while the call that opened it is running.
C13_OwnConnectionClosed ==
    /\ \A k \in 1..Len(conns) :
          /\ \A j \in 1..Len(conns[k].ops) : conns[k].ops[j].by = conns[k].by
          /\ \A i \in 1..Len(conns) : conns[i].by = conns[k].by => i = k
          /\ conns[k].open =>
                LET c == conns[k].by[1]
                IN  /\ call[c].pc \notin {"idle", "returned"}
                    /\ call[c].conn = k /\ call[c].n = conns[k].by[2]
          /\ ~conns[k].open => OpsOf(k)[Len(OpsOf(k))] = "close"
    /\ \A c \in Callers :
          call[c].pc \notin {"idle", "returned"} =>
              /\ call[c].conn \in 1..Len(conns)
              /\ conns[call[c].conn].by = <<c, call[c].n>> /\ conns[call[c].conn].open

\* three calls have returned on the three paths (committed, rolled back, another
\* exception propagated) and their three connections are closed
C13_Witness ==
    /\ Len(conns) = 3 /\ \A k \in 1..3 : ~conns[k].open
    /\ \A c \in Callers : call[c].pc = "returned"
    /\ \E k \in 1..3 : "commit" \in Range(OpsOf(k)) /\ conns[k].ops[Len(conns[k].ops) - 1].outcome = "ok"
    /\ \E k \in 1..3 : "rollback" \in Range(OpsOf(k))
    /\ \E k \in 1..3 : \E j \in 1..Len(conns[k].ops) : conns[k].ops[j].outcome = "Exception"


(***************************************************************************)
(* ContentCalendarService of app/services/content_calendar.py.  The        *)
(* scheduled_time of a post is the string the caller gave, a sequence of   *)
(* characters; the service parses it to compare it with the range and      *)
(* sorts the posts by the string itself.                                   *)
(***************************************************************************)

\* calendar: how many posts are scheduled in a run
MaxCalPosts == 2

\* ord(c) of the characters of the time strings
Ascii ==
    ("+" :> 43) @@ ("-" :> 45) @@ ("0" :> 48) @@ ("1" :> 49) @@ ("2" :> 50) @@ ("3" :> 51)
    @@ ("4" :> 52) @@ ("5" :> 53) @@ ("6" :> 54) @@ ("7" :> 55) @@ ("8" :> 56) @@ ("9" :> 57)
    @@ (":" :> 58) @@ ("T" :> 84) @@ ("Z" :> 90) @@ ("x" :> 120)

\* "2024-01-01THH:00:00" followed by a suffix: "Z", an offset, or nothing (a naive time)
IsoString(hh, suffix) ==
    <<"2","0","2","4","-","0","1","-","0","1","T">> \o hh \o <<":","0","0",":","0","0">>
    \o suffix

\* the scheduled_time strings of the requests: 09:00 UTC written with "Z" and with the
\* offset -01:00, 08:00 UTC written with the offset +02:00, 10:00 UTC, a naive
\* 09:00, and "x", which is not a time
TimeStrings ==
    { IsoString(<<"0","9">>, <<"Z">>),
      IsoString(<<"0","8">>, <<"-","0","1",":","0","0">>),
      IsoString(<<"1","0">>, <<"+","0","2",":","0","0">>),
      IsoString(<<"1","0">>, <<"+","0","0",":","0","0">>),
      IsoString(<<"0","9">>, <<>>),
      <<"x">> }

\* the start_date and end_date strings of the requests
RangeStrings ==
    { IsoString(<<"0","8">>, <<"Z">>), IsoString(<<"1","0">>, <<"+","0","0",":","0","0">>),
      IsoString(<<"0","8">>, <<>>), <<"x">> }

\* Python's a < b on strings: by the first character that differs, a proper prefix
\* first
RECURSIVE StrLess(_, _)
StrLess(a, b) ==
    IF b = <<>> THEN FALSE
    ELSE IF a = <<>> THEN TRUE
    ELSE IF a[1] # b[1] THEN Ascii[a[1]] < Ascii[b[1]]
    ELSE StrLess(Tail(a), Tail(b))

\* s.replace('Z', '+00:00')
RECURSIVE replace_Z(_)
replace_Z(s) ==
    IF s = <<>> THEN <<>>
    ELSE (IF s[1] = "Z" THEN <<"+","0","0",":","0","0">> ELSE <<s[1]>>) \o replace_Z(Tail(s))

\* datetime.fromisoformat of "YYYY-MM-DDTHH:MM:SS" with or without "+HH:MM" / "-HH:MM".
\* ok is FALSE for the ValueError; t is the minute of the instant (UTC) for an aware
\* datetime and the minute of the wall clock for a naive one, counted from the first
\* day of the month.
fromisoformat(s) ==
    LET Num(i) == 10 * (Ascii[s[i]] - 48) + (Ascii[s[i + 1]] - 48)
        wall == ((Num(9) - 1) * 24 + Num(12)) * 60 + Num(15)
        offset == (IF s[20] = "-" THEN -1 ELSE 1) * (Num(21) * 60 + Num(24))
    IN  IF Len(s) = 19 THEN [ok |-> TRUE, aware |-> FALSE, t |-> wall]
        ELSE IF Len(s) = 25 THEN [ok |-> TRUE, aware |-> TRUE, t |-> wall - offset]
        ELSE [ok |-> FALSE, aware |-> FALSE, t |-> 0]

\* a <= b of two datetimes: TypeError between a naive and an aware one
datetime_le(a, b) ==
    IF a.aware # b.aware THEN "TypeError" ELSE IF a.t <= b.t THEN "True" ELSE "False"

\* the mutant: the list is re-written with the earlier posts published
append_publishing(user_posts, post_data) ==
    Append([k \in 1..Len(user_posts) |-> [user_posts[k] EXCEPT !.status = "published"]],
           post_data)

\* self.scheduled_posts[user_id].append(post_data)
append(user_posts, post_data) == Append(user_posts, post_data)

\* sorted(filtered_posts, key=lambda x: x["scheduled_time"]): by the strings, stable
sorted_by_scheduled_time(filtered_posts) ==
    LET n == Len(filtered_posts)
        key(k) == filtered_posts[k].scheduled_time
        p == CHOOSE q \in Permutations(1..n) :
                 \A i, j \in 1..n :
                    i < j => \/ StrLess(key(q[i]), key(q[j]))
                             \/ key(q[i]) = key(q[j]) /\ q[i] < q[j]
    IN  [k \in 1..n |-> filtered_posts[p[k]]]

\* ContentCalendarService._get_scheduled_posts: the posts of the user whose time is
\* in the range, sorted; [] when a comparison raises
_get_scheduled_posts(start_date, end_date, user_id) ==
    LET user_posts == scheduled_posts[user_id]
        post_date(k) == fromisoformat(replace_Z(user_posts[k].scheduled_time))
        InRange(k) ==
            IF datetime_le(start_date, post_date(k)) # "True"
            THEN datetime_le(start_date, post_date(k))
            ELSE datetime_le(post_date(k), end_date)
    IN  IF \E k \in 1..Len(user_posts) : InRange(k) = "TypeError"
           /\ \A i \in 1..(k - 1) : InRange(i) # "TypeError"
        THEN <<>>
        ELSE sorted_by_scheduled_time(SelectSeq(user_posts,
                 LAMBDA post : \E k \in 1..Len(user_posts) :
                                  user_posts[k] = post /\ InRange(k) = "True"))

exceptCalendar == <<contentVars, serverVars, img, conns, call, memoryVars>>

\* ContentCalendarService.schedule_post; the id stands for post_{timestamp}
calendar_schedule_post(scheduled_time, user_id) ==
    LET scheduled_dt == fromisoformat(replace_Z(scheduled_time))
        post_data == [id |-> 1 + Len(scheduled_posts["default"]) + Len(scheduled_posts["ann"]),
                      scheduled_time |-> scheduled_time, status |-> "scheduled",
                      user_id |-> user_id]
    IN  /\ Len(scheduled_posts["default"]) + Len(scheduled_posts["ann"]) < MaxCalPosts
        /\ IF scheduled_dt.ok
           THEN /\ scheduled_posts' = [scheduled_posts EXCEPT
                                         ![user_id] = append(@, post_data)]
                /\ view' = [op |-> "schedule_post", success |-> TRUE]
           ELSE /\ view' = [op |-> "schedule_post", success |-> FALSE]
                /\ UNCHANGED scheduled_posts

\* ContentCalendarService.get_calendar_view: the posts of the range and their count;
\* _get_fallback_calendar when a date does not parse
get_calendar_view(start_date, end_date, user_id) ==
    LET start == fromisoformat(replace_Z(start_date))
        end == fromisoformat(replace_Z(end_date))
        listed == IF start.ok /\ end.ok THEN _get_scheduled_posts(start, end, user_id)
                  ELSE <<>>
    IN  /\ view' = [op |-> "get_calendar_view", start |-> start, end |-> end,
                    user_id |-> user_id, scheduled_posts |-> listed,
                    total_posts |-> Len(listed)]
        /\ UNCHANGED scheduled_posts

CalendarSchedulePost ==
    \E t \in TimeStrings, u \in CalendarUsers :
        calendar_schedule_post(t, u) /\ UNCHANGED <<exceptCalendar, dbVars>>

GetCalendarView ==
    \E s, e \in RangeStrings, u \in CalendarUsers :
        get_calendar_view(s, e, u) /\ UNCHANGED <<exceptCalendar, dbVars>>

CalendarNext == CalendarSchedulePost \/ GetCalendarView

SpecCalendar == PostsInit /\ [][CalendarNext]_vars

\* the posts of the user of the view whose instant is in the range of the view
InView(post) ==
    LET at == fromisoformat(replace_Z(post.scheduled_time))
    IN  /\ post.user_id = view.user_id
        /\ at.aware = view.start.aware /\ at.aware = view.end.aware
        /\ view.start.t <= at.t /\ at.t <= view.end.t

\* C20 as stated: get_calendar_view returns exactly the posts of the user that are in
\* the range, none of another user, in ascending order of the instants, and
\* total_posts is their number.
C20_CalendarView ==
    (view.op = "get_calendar_view" /\ view.start.ok /\ view.end.ok
        /\ view.start.aware /\ view.end.aware) =>
        LET listed == view.scheduled_posts
        IN  /\ \A k \in 1..Len(listed) : listed[k].user_id = view.user_id
            /\ \A post \in Range(scheduled_posts[view.user_id]) :
                  (post \in Range(listed)) <=>
                      (fromisoformat(replace_Z(post.scheduled_time)).aware /\ InView(post))
            /\ \A i, j \in 1..Len(listed) :
                  i < j => /\ listed[i] # listed[j]
                           /\ fromisoformat(replace_Z(listed[i].scheduled_time)).t
                                <= fromisoformat(replace_Z(listed[j].scheduled_time)).t
            /\ view.total_posts = Len(listed)


(***************************************************************************)
(* The three ways a post is created (content_service.schedule_post,        *)
(* SupabaseClient.schedule_post, ContentCalendarService.schedule_post) and *)
(* the two ways posts are listed, in one run.                              *)
(***************************************************************************)

\* how SupabaseClient.schedule_post ends: no client (mock mode), the insert returned
\* the row, or the insert raised
SupabaseOutcomes == {"no_client", "inserted", "exception"}

\* SupabaseClient.schedule_post: inserts into table scheduled_posts with 'status':
\* 'scheduled'; returns the id of the row, or a mock id
supabase_schedule_post(user_id, scheduled_time, o) ==
    LET row == [kind |-> "row", id |-> Len(posts) + 1, user_id |-> user_id,
                scheduled_time |-> scheduled_time, status |-> "scheduled"]
    IN  /\ Len(posts) < MaxPosts
        /\ posts' = IF o = "inserted" THEN Append(posts, row) ELSE posts
        /\ resp' = [op |-> "supabase.schedule_post", user_id |-> user_id,
                    result |-> IF o = "inserted" THEN [kind |-> "id", id |-> row.id]
                               ELSE [kind |-> "mock-schedule", id |-> 0]]
        /\ UNCHANGED <<users, contentVars, serverVars, serviceVars>>

LifecycleSchedulePost == \E t \in 1..2, o \in DbOutcomes : schedule_post("u1", t, o)

LifecycleGetScheduledPosts == \E o \in DbOutcomes : get_scheduled_posts("u1", o)

LifecycleSupabaseSchedulePost ==
    \E t \in 1..2, o \in SupabaseOutcomes : supabase_schedule_post("u1", t, o)

LifecycleCalendarSchedulePost ==
    /\ \E t \in { IsoString(<<"0","9">>, <<"Z">>),
                  IsoString(<<"1","0">>, <<"+","0","2",":","0","0">>) } :
          calendar_schedule_post(t, "default")
    /\ UNCHANGED <<exceptCalendar, dbVars>>

LifecycleGetCalendarView ==
    /\ get_calendar_view(IsoString(<<"0","8">>, <<"Z">>),
                         IsoString(<<"1","0">>, <<"+","0","0",":","0","0">>), "default")
    /\ UNCHANGED <<exceptCalendar, dbVars>>

LifecycleNext ==
    \/ LifecycleSchedulePost
    \/ LifecycleGetScheduledPosts
    \/ LifecycleSupabaseSchedulePost
    \/ LifecycleCalendarSchedulePost
    \/ LifecycleGetCalendarView

SpecLifecycle == PostsInit /\ [][LifecycleNext]_vars

\* C15: a scheduled post has no lifecycle.  Every row of table scheduled_posts and
\* every post of ContentCalendarService.scheduled_posts has the status it was created
\* with, "scheduled", in every reachable state: no operation of the SQL content
\* service, of SupabaseClient or of ContentCalendarService changes it.
C15_NoLifecycle ==
    /\ \A k \in 1..Len(posts) : posts[k].status = "scheduled"
    /\ \A u \in CalendarUsers : \A k \in 1..Len(scheduled_posts[u]) :
          scheduled_posts[u][k].status = "scheduled"

\* the table and the calendar are full and both have been listed after the last
\* post was created
C15_Witness ==
    /\ Len(posts) = MaxPosts /\ resp.op = "get_scheduled_posts"
    /\ Len(scheduled_posts["default"]) = MaxCalPosts
    /\ view.op = "get_calendar_view" /\ view.total_posts = MaxCalPosts

(***************************************************************************)
(* The TTL caches: RAGPipeline.cache (rag_pipeline.py) and                 *)
(* ContentIntelligenceService.trend_cache (content_intelligence.py).       *)
(* Strings are sequences of fragments; the fragments are chosen so that    *)
(* two strings are equal exactly when their fragment sequences are.        *)
(* Times are in seconds, relevance scores in tenths.                       *)
(***************************************************************************)

MaxLookups == 2

\* the clock stops here, half an hour past the longer TTL
MaxNow == 23400

\* the steps of the clock: with them every age of 1800, 3600, 5400 and of 19800,
\* 21600, 23400 seconds occurs, on both sides of each TTL and on it
Advances == {1800, 19800}

\* the instants the clock shows
Instants == {k * 1800 : k \in 0..(MaxNow \div 1800)}

exceptClock == <<contentVars, dbVars, serverVars, img, conns, call, scheduled_posts, view,
                 cache, trend_cache, lookup, redis_client, redis_db, redis_ops,
                 ab_test_results, ab, otherVars>>

\* time passes between two calls
Tick ==
    \E d \in Advances :
        /\ now + d <= MaxNow
        /\ now' = now + d
        /\ UNCHANGED exceptClock

Decimal == <<"0", "1", "2", "3", "4", "5", "6", "7", "8", "9">>

\* str(n) of a natural number, as an f-string formats it
RECURSIVE str(_)
str(n) == IF n < 10 THEN <<Decimal[n + 1]>> ELSE str(n \div 10) \o <<Decimal[(n % 10) + 1]>>

\* dict lookup and assignment
dict_get(d, k) == IF k \in DOMAIN d THEN d[k] ELSE None

dict_set(d, k, v) == [x \in DOMAIN d \cup {k} |-> IF x = k THEN v ELSE d[x]]

\* self.cache_ttl = 3600
cache_ttl == 3600

\* timedelta(hours=6)
trend_ttl == 6 * 3600

\* cache_key = f"context_{topic}_{max_results}"
context_cache_key(t, max_results) == <<"context_">> \o t \o <<"_">> \o str(max_results)

_get_trending_topics(t, at) ==
    << [source |-> "trending", title |-> <<"Latest trends in ">> \o t,
        relevance_score |-> 8, timestamp |-> at],
       [source |-> "trending", title |-> t \o <<" industry insights">>,
        relevance_score |-> 7, timestamp |-> at] >>

_get_industry_news(t, at) ==
    << [source |-> "news", title |-> <<"Breaking: Major developments in ">> \o t,
        relevance_score |-> 9, timestamp |-> at],
       [source |-> "news", title |-> <<"Expert analysis on ">> \o t \o <<" trends">>,
        relevance_score |-> 8, timestamp |-> at] >>

_get_linkedin_insights(t, at) ==
    << [source |-> "linkedin", title |-> <<"LinkedIn best practices for ">> \o t \o <<" content">>,
        relevance_score |-> 9, timestamp |-> at],
       [source |-> "linkedin", title |-> <<"Optimal posting times for ">> \o t,
        relevance_score |-> 7, timestamp |-> at] >>

\* _query_vector_db: [] without the embedding model or the vector database and when
\* the query raises, else one result per document; found says which
_query_vector_db(found, at) ==
    IF found
    THEN << [source |-> "vector_db", title |-> <<"Related content 1">>,
             relevance_score |-> 10, timestamp |-> at] >>
    ELSE <<>>

\* sorted(context, key=relevance_score, reverse=True): stable, the items of one score
\* keep their order
RECURSIVE sorted_by_relevance(_, _)
sorted_by_relevance(context, score) ==
    IF score < 0 THEN <<>>
    ELSE SelectSeq(context, LAMBDA x : x.relevance_score = score)
            \o sorted_by_relevance(context, score - 1)

\* _rank_context: ranked[:max_results]
_rank_context(context, max_results) ==
    LET ranked == sorted_by_relevance(context, 10)
    IN  SubSeq(ranked, 1, IF max_results < Len(ranked) THEN max_results ELSE Len(ranked))

\* what get_relevant_context computes on a miss
gather_context(t, max_results, found, at) ==
    _rank_context(_get_trending_topics(t, at) \o _get_industry_news(t, at)
                    \o _get_linkedin_insights(t, at) \o _query_vector_db(found, at),
                  max_results)

RagTopics == {<<"a">>, <<"a", "_", "1">>}

RagMaxResults == {1, 5}

exceptCache == <<contentVars, dbVars, serverVars, img, conns, call, scheduled_posts, view,
                 now, redis_client, redis_db, redis_ops, ab_test_results, ab, otherVars>>

\* RAGPipeline.get_relevant_context(topic, max_results)
get_relevant_context(t, max_results, found) ==
    LET cache_key == context_cache_key(t, max_results)
        entry == dict_get(cache, cache_key)
        hit == entry # None /\ now - entry.timestamp < cache_ttl
        ranked_context == gather_context(t, max_results, found, now)
    IN  /\ cache' = IF hit THEN cache
                    ELSE dict_set(cache, cache_key, [data |-> ranked_context, timestamp |-> now])
        /\ lookup' = [fn |-> "get_relevant_context", n |-> lookup.n + 1,
                      args |-> <<t, max_results>>, key |-> cache_key, at |-> now,
                      entry |-> entry, hit |-> hit,
                      result |-> IF hit THEN entry.data ELSE ranked_context]
        /\ UNCHANGED <<trend_cache, exceptCache>>

GetRelevantContext ==
    \E t \in RagTopics, max_results \in RagMaxResults, found \in BOOLEAN :
        /\ lookup.n < MaxLookups
        /\ get_relevant_context(t, max_results, found)

\* _simulate_trend_research: industry_trends
industry_trends ==
    [Technology |-> << <<"artificial intelligence adoption">>, <<"cloud-first strategies">>,
                       <<"cybersecurity awareness">>, <<"remote work technologies">>,
                       <<"sustainable tech solutions">>, <<"edge computing growth">>,
                       <<"quantum computing research">> >>,
     Marketing |-> << <<"personalized customer experiences">>, <<"video content dominance">>,
                      <<"influencer partnerships">>, <<"voice search optimization">>,
                      <<"privacy-first marketing">>, <<"omnichannel strategies">>,
                      <<"AI-powered analytics">> >>,
     Finance |-> << <<"digital ", "banking", " transformation">>, <<"cryptocurrency adoption">>,
                    <<"ESG investing growth">>, <<"robo-advisor popularity">>,
                    <<"open ", "banking", " initiatives">>, <<"regulatory technology">>,
                    <<"financial wellness focus">> >>]

\* str.lower() on the fragments that have capitals
LowerFragment ==
    ("AI" :> "ai") @@ ("Finance" :> "finance") @@ ("ESG investing growth" :> "esg investing growth")
        @@ ("AI-powered analytics" :> "ai-powered analytics")

lower(s) == [k \in 1..Len(s) |->
                IF s[k] \in DOMAIN LowerFragment THEN LowerFragment[s[k]] ELSE s[k]]

\* str.split() of a string without whitespace
split(s) == IF s = <<>> THEN <<>> ELSE <<s>>

\* the industries and topics of the calls; their words are whole fragments of the
\* trends above or occur in none of them
Industries == {<<"Finance">>, <<"Finance", "_", "AI">>}

TrendTopics == {<<"banking">>, <<"AI", "_", "banking">>}

_simulate_trend_research(industry, t) ==
    LET base_trends == IF Len(industry) = 1 /\ industry[1] \in DOMAIN industry_trends
                       THEN industry_trends[industry[1]]
                       ELSE industry_trends["Technology"]
        words == split(lower(t))
        relevant_trends == SelectSeq(base_trends,
                              LAMBDA trend : \E k \in 1..Len(words) :
                                                Contains(words[k], lower(trend)))
        chosen == IF relevant_trends = <<>> THEN SubSeq(base_trends, 1, 5) ELSE relevant_trends
    IN  SubSeq(chosen, 1, IF Len(chosen) < 7 THEN Len(chosen) ELSE 7)

\* cache_key = f"{industry}_{topic}"
trend_cache_key(industry, t) == industry \o <<"_">> \o t

\* ContentIntelligenceService._research_trends(industry, topic)
_research_trends(industry, t) ==
    LET cache_key == trend_cache_key(industry, t)
        entry == dict_get(trend_cache, cache_key)
        hit == entry # None /\ now - entry.timestamp < trend_ttl
        trends == _simulate_trend_research(industry, t)
    IN  /\ trend_cache' = IF hit THEN trend_cache
                          ELSE dict_set(trend_cache, cache_key,
                                        [trends |-> trends, timestamp |-> now])
        /\ lookup' = [fn |-> "_research_trends", n |-> lookup.n + 1,
                      args |-> <<industry, t>>, key |-> cache_key, at |-> now,
                      entry |-> entry, hit |-> hit,
                      result |-> IF hit THEN entry.trends ELSE trends]
        /\ UNCHANGED <<cache, exceptCache>>

ResearchTrends ==
    \E industry \in Industries, t \in TrendTopics :
        /\ lookup.n < MaxLookups
        /\ _research_trends(industry, t)

CacheNext == Tick \/ GetRelevantContext \/ ResearchTrends

SpecCache == PostsInit /\ [][CacheNext]_vars

\* the TTL of the cache the latest lookup read
TtlOf(fn) == IF fn = "get_relevant_context" THEN cache_ttl ELSE trend_ttl

\* the value a lookup may return: one computed for its own arguments less than a TTL ago
FreshFor(l) ==
    IF l.fn = "get_relevant_context"
    THEN \E found \in BOOLEAN, at \in Instants :
            /\ at <= l.at
            /\ l.at - at < cache_ttl
            /\ l.result = gather_context(l.args[1], l.args[2], found, at)
    ELSE l.result = _simulate_trend_research(l.args[1], l.args[2])

MaxRedisOps == 3

\* the clock of these runs stops an hour in, at the default expire
MaxRedisNow == 3600

RedisKeys == {"k", "j"}

\* the values of the calls: a tuple of one int, and a datetime, which json cannot dump
\* (v holds the items, the hour)
RedisValues == {[type |-> "tuple", v |-> <<1>>], [type |-> "datetime", v |-> <<0>>]}

\* Python's True and False as values
Bool(b) == [type |-> "bool", v |-> IF b THEN <<1>> ELSE <<0>>]

\* expire: the default of set
Expires == {3600}

\* connect(): from_url and ping succeed, or one of them raises
ConnectOutcomes == {"ok", "from_url_raises", "ping_raises"}

\* a command sent to the server answers or raises (ConnectionError, TimeoutError)
CommandOutcomes == {"ok", "raise"}

\* json.dumps(value): the text, or TypeError (raises)
json_dumps(value) ==
    CASE value.type = "int" -> [raises |-> FALSE, text |-> str(value.v[1])]
      [] value.type \in {"tuple", "list"} ->
            [raises |-> FALSE, text |-> <<"[">> \o str(value.v[1]) \o <<"]">>]
      [] OTHER -> [raises |-> TRUE, text |-> <<>>]

\* json.loads(text) of the texts above: a JSON array is loaded as a list
json_loads(text) ==
    IF text[1] = "["
    THEN [type |-> "list", v |-> <<CHOOSE n \in 0..9 : str(n) = <<text[2]>> >>]
    ELSE [type |-> "int", v |-> <<CHOOSE n \in 0..9 : str(n) = text>>]

\* the keys of the server that have not expired
live(k) == k \in DOMAIN redis_db /\ now < redis_db[k].expires

exceptRedis == <<contentVars, dbVars, serverVars, img, conns, call, scheduled_posts, view,
                 now, cache, trend_cache, lookup, ab_test_results, ab, otherVars>>

\* RedisClient.connect
connect(o) ==
    /\ redis_client' = [client |-> IF o = "ok" THEN "Redis" ELSE "None",
                        connect |-> IF o = "ok" THEN "ok" ELSE "failed"]
    /\ UNCHANGED <<redis_db, redis_ops, exceptRedis>>

\* one cache operation of the client is over: what it was called with and returned
Called(fn, key, value, expire, ret) ==
    redis_ops' = Append(redis_ops, [fn |-> fn, key |-> key, value |-> value, expire |-> expire,
                                    at |-> now, connect |-> redis_client.connect,
                                    raised |-> ret = Raise, ret |-> ret])

\* RedisClient.get
redis_get(key, o) ==
    LET ret == IF redis_client.client = "None" THEN None
               ELSE IF o = "raise" THEN None
               ELSE IF live(key) THEN json_loads(redis_db[key].value) ELSE None
    IN  /\ Called("get", key, None, 0, ret)
        /\ UNCHANGED <<redis_client, redis_db, exceptRedis>>

\* RedisClient.set
redis_set(key, value, expire, o) ==
    LET dumped == json_dumps(value)
        sent == redis_client.client # "None" /\ ~dumped.raises
        done == sent /\ o = "ok"
    IN  /\ redis_db' = IF done
                       THEN dict_set(redis_db, key, [value |-> dumped.text, expires |-> now + expire])
                       ELSE redis_db
        /\ Called("set", key, value, expire, Bool(done))
        /\ UNCHANGED <<redis_client, exceptRedis>>

\* RedisClient.delete
redis_delete(key, o) ==
    LET done == redis_client.client # "None" /\ o = "ok"
    IN  /\ redis_db' = IF done THEN [k \in DOMAIN redis_db \ {key} |-> redis_db[k]] ELSE redis_db
        /\ Called("delete", key, None, 0, Bool(done))
        /\ UNCHANGED <<redis_client, exceptRedis>>

\* RedisClient.exists
redis_exists(key, o) ==
    LET found == redis_client.client # "None" /\ o = "ok" /\ live(key)
    IN  /\ Called("exists", key, None, 0, Bool(found))
        /\ UNCHANGED <<redis_client, redis_db, exceptRedis>>

Connect == \E o \in ConnectOutcomes : connect(o)

RedisGet ==
    \E key \in RedisKeys, o \in CommandOutcomes :
        Len(redis_ops) < MaxRedisOps /\ redis_get(key, o)

RedisSet ==
    \E key \in RedisKeys, value \in RedisValues, expire \in Expires, o \in CommandOutcomes :
        Len(redis_ops) < MaxRedisOps /\ redis_set(key, value, expire, o)

RedisDelete ==
    \E key \in RedisKeys, o \in CommandOutcomes :
        Len(redis_ops) < MaxRedisOps /\ redis_delete(key, o)

RedisExists ==
    \E key \in RedisKeys, o \in CommandOutcomes :
        Len(redis_ops) < MaxRedisOps /\ redis_exists(key, o)

RedisTick == Tick /\ now' <= MaxRedisNow

RedisNext == Connect \/ RedisGet \/ RedisSet \/ RedisDelete \/ RedisExists \/ RedisTick

SpecRedis == PostsInit /\ [][RedisNext]_vars

\* operation i is a set and is what key holds when operation j reads it: no set or
\* delete of the key lies between them and the value has not expired
HoldsAt(i, j) ==
    /\ i < j
    /\ redis_ops[i].fn = "set"
    /\ redis_ops[i].key = redis_ops[j].key
    /\ redis_ops[j].at - redis_ops[i].at < redis_ops[i].expire
    /\ \A m \in (i + 1)..(j - 1) :
          ~(redis_ops[m].key = redis_ops[j].key /\ redis_ops[m].fn \in {"set", "delete"})

\* C18 as stated: after connect() has failed the client works as an in-memory cache:
\* no cache operation raises, set returns True, and a get of a key returns the value
\* of the latest set of that key until it expires or is deleted.
C18_InMemoryFallback ==
    \A j \in 1..Len(redis_ops) :
        redis_ops[j].connect = "failed" =>
            /\ ~redis_ops[j].raised
            /\ redis_ops[j].fn = "set" => redis_ops[j].ret = Bool(TRUE)
            /\ redis_ops[j].fn = "get" =>
                  \A i \in 1..(j - 1) :
                      (HoldsAt(i, j) /\ redis_ops[i].connect = "failed") =>
                          redis_ops[j].ret # None

(***************************************************************************)
(* The A/B tests of EngagementTracker: app/services/engagement_tracker.py. *)
(* The clock starts at 2024-01-01T00:00:00 and shows whole seconds; rates  *)
(* are in hundredths of a percent, as round(rate, 2) keeps them.           *)
(***************************************************************************)

MaxAbTests == 2

MaxAbCalls == 4

\* the clock of these runs stops two hours in, an hour past the end of a test
MaxAbNow == 7200

\* test_duration_hours of the calls
Durations == {0, 1}

\* the variant of the calls; "variant_c" is none of the test
Variants == {"variant_a", "variant_b", "variant_c"}

\* the metrics of the calls: a dict with some of the keys of a variant's results
MetricsArgs ==
    {[impressions |-> 99, engagements |-> 10], [impressions |-> 100, engagements |-> 10],
     [impressions |-> 200, engagements |-> 20], [impressions |-> 100],
     [engagements |-> 20]}

two_digits(n) == <<Decimal[(n \div 10) + 1], Decimal[(n % 10) + 1]>>

\* datetime.isoformat() of the instant sec seconds after the origin of the clock
isoformat(sec) ==
    <<"2","0","2","4","-","0","1","-">> \o two_digits(1 + (sec \div 86400)) \o <<"T">>
    \o two_digits((sec \div 3600) % 24) \o <<":">> \o two_digits((sec \div 60) % 60)
    \o <<":">> \o two_digits(sec % 60)

\* test_id = f"test_{datetime.now().timestamp()}", the timestamp counted from the origin
test_id_at(sec) == <<"test_">> \o str(sec) \o <<".", "0">>

\* round((engagements / impressions) * 100, 2), in hundredths; no quotient of the
\* calls lies halfway between two hundredths
round_rate(engagements, impressions) ==
    ((2 * engagements * 10000) + impressions) \div (2 * impressions)

\* d.update(metrics)
dict_update(d, metrics) ==
    [k \in DOMAIN d \cup DOMAIN metrics |-> IF k \in DOMAIN metrics THEN metrics[k] ELSE d[k]]

\* the mutant: one variant with 100 impressions is enough to conclude
_should_conclude_test_either(test_data, at) ==
    LET end_time == fromisoformat(replace_Z(test_data.end_time))
    IN  \/ at \div 60 >= end_time.t
        \/ test_data.results.variant_a.impressions >= 100
        \/ test_data.results.variant_b.impressions >= 100

\* EngagementTracker._should_conclude_test, at the instant `at` of datetime.now()
_should_conclude_test(test_data, at) ==
    LET end_time == fromisoformat(replace_Z(test_data.end_time))
    IN  \/ at \div 60 >= end_time.t
        \/ /\ test_data.results.variant_a.impressions >= 100
           /\ test_data.results.variant_b.impressions >= 100

\* EngagementTracker._conclude_ab_test
_conclude_ab_test(test_data, at) ==
    LET variant_a_rate == test_data.results.variant_a.rate
        variant_b_rate == test_data.results.variant_b.rate
    IN  [test_data EXCEPT !.status = "completed",
                          !.completed_at = isoformat(at),
                          !.winner = IF variant_a_rate > variant_b_rate THEN "variant_a"
                                     ELSE IF variant_b_rate > variant_a_rate THEN "variant_b"
                                     ELSE "tie"]

\* EngagementTracker._analyze_ab_test: the winner of the analysis
_analyze_ab_test(test_data) ==
    LET variant_a == test_data.results.variant_a
        variant_b == test_data.results.variant_b
    IN  IF variant_b.rate > variant_a.rate THEN "variant_b"
        ELSE IF variant_a.rate > variant_b.rate THEN "variant_a"
        ELSE "tie"

exceptAb == <<contentVars, dbVars, serverVars, img, conns, call, scheduled_posts, view,
              now, cache, trend_cache, lookup, redis_client, redis_db, redis_ops, otherVars>>

\* one call of the tracker is over
AbCalled(fn, test_id, ret) ==
    ab' = [fn |-> fn, n |-> ab.n + 1, test_id |-> test_id, at |-> now,
           before |-> dict_get(ab_test_results, test_id), ret |-> ret]

\* EngagementTracker.start_ab_test; the keys completed_at and winner, which a test has
\* only once it is concluded, are "" until then
start_ab_test(test_duration_hours) ==
    LET test_id == test_id_at(now)
        test_data == [test_id |-> test_id,
                      start_time |-> isoformat(now),
                      end_time |-> isoformat(now + (test_duration_hours * 3600)),
                      status |-> "running",
                      completed_at |-> <<>>,
                      winner |-> "",
                      results |-> [variant_a |-> [impressions |-> 0, engagements |-> 0, rate |-> 0],
                                   variant_b |-> [impressions |-> 0, engagements |-> 0, rate |-> 0]]]
    IN  /\ ab_test_results' = dict_set(ab_test_results, test_id, test_data)
        /\ AbCalled("start_ab_test", test_id, [success |-> TRUE, winner |-> ""])
        /\ UNCHANGED exceptAb

\* EngagementTracker.update_ab_test_results
update_ab_test_results(test_id, variant, metrics) ==
    IF test_id \notin DOMAIN ab_test_results
    THEN /\ AbCalled("update_ab_test_results", test_id, [success |-> FALSE, winner |-> ""])
         /\ UNCHANGED <<ab_test_results, exceptAb>>
    ELSE LET test_data == ab_test_results[test_id]
             merged == dict_update(test_data.results[variant], metrics)
             rated == IF merged.impressions > 0
                      THEN [merged EXCEPT !.rate = round_rate(merged.engagements,
                                                              merged.impressions)]
                      ELSE merged
             updated == IF variant \in {"variant_a", "variant_b"}
                        THEN [test_data EXCEPT !.results[variant] = rated]
                        ELSE test_data
             concluded == IF _should_conclude_test(updated, now)
                          THEN _conclude_ab_test(updated, now)
                          ELSE updated
         IN  /\ ab_test_results' = dict_set(ab_test_results, test_id, concluded)
             /\ AbCalled("update_ab_test_results", test_id, [success |-> TRUE, winner |-> ""])
             /\ UNCHANGED exceptAb

\* EngagementTracker.get_ab_test_results
get_ab_test_results(test_id) ==
    /\ AbCalled("get_ab_test_results", test_id,
                IF test_id \in DOMAIN ab_test_results
                THEN [success |-> TRUE, winner |-> _analyze_ab_test(ab_test_results[test_id])]
                ELSE [success |-> FALSE, winner |-> ""])
    /\ UNCHANGED <<ab_test_results, exceptAb>>

\* the test ids of the calls: those of the tests, and one of no test
TestIds == DOMAIN ab_test_results \cup {<<"test_", "x">>}

\* datetime.now().timestamp() counts microseconds and a call lasts longer, so two
\* calls do not draw the same test_id
StartAbTest ==
    \E test_duration_hours \in Durations :
        /\ ab.n < MaxAbCalls
        /\ Cardinality(DOMAIN ab_test_results) < MaxAbTests
        /\ test_id_at(now) \notin DOMAIN ab_test_results
        /\ start_ab_test(test_duration_hours)

UpdateAbTestResults ==
    \E test_id \in TestIds, variant \in Variants, metrics \in MetricsArgs :
        /\ ab.n < MaxAbCalls
        /\ update_ab_test_results(test_id, variant, metrics)

GetAbTestResults ==
    \E test_id \in TestIds :
        /\ ab.n < MaxAbCalls
        /\ get_ab_test_results(test_id)

AbTick == Tick /\ now' <= MaxAbNow

AbNext == StartAbTest \/ UpdateAbTestResults \/ GetAbTestResults \/ AbTick

SpecAb == PostsInit /\ [][AbNext]_vars

\* the condition of the claim on a test at an instant: at or past end_time, or 100
\* impressions or more on both variants
Due(test_data, at) ==
    \/ at >= 60 * fromisoformat(test_data.end_time).t
    \/ /\ test_data.results.variant_a.impressions >= 100
       /\ test_data.results.variant_b.impressions >= 100

\* the winner of the claim: the variant of the strictly higher rate, or "tie"
WinnerOf(test_data) ==
    LET a == test_data.results.variant_a.rate
        b == test_data.results.variant_b.rate
    IN  IF a > b THEN "variant_a" ELSE IF b > a THEN "variant_b" ELSE "tie"

\* C19: a test is created with status "running" and becomes "completed" only in a call
\* of update_ab_test_results for it at which the time is at or past its end_time or
\* both variants have 100 impressions or more; such a call leaves the test
\* "completed" with the winner the variant of the strictly higher rate, or "tie" for
\* equal rates; no other step completes a test.
C19_CompletedByUpdate ==
    [][ /\ \A id \in DOMAIN ab_test_results' :
              LET was == IF id \in DOMAIN ab_test_results
                         THEN ab_test_results[id].status ELSE "absent"
                  is == ab_test_results'[id].status
              IN  /\ is \in {"running", "completed"}
                  /\ was = "absent" => is = "running"
                  /\ (was = "running" /\ is = "completed") =>
                        /\ ab'.fn = "update_ab_test_results"
                        /\ ab'.test_id = id
                        /\ ab'.n = ab.n + 1
                        /\ Due(ab_test_results'[id], now)
        /\ (ab'.n = ab.n + 1 /\ ab'.fn = "update_ab_test_results"
              /\ ab'.test_id \in DOMAIN ab_test_results'
              /\ Due(ab_test_results'[ab'.test_id], now)) =>
                 /\ ab_test_results'[ab'.test_id].status = "completed"
                 /\ ab_test_results'[ab'.test_id].winner = WinnerOf(ab_test_results'[ab'.test_id])
      ]_vars

\* a test was completed before its end_time by the impressions, with variant_b ahead
C19_Witness ==
    /\ ab.fn = "update_ab_test_results"
    /\ ab.before # None
    /\ ab.before.status = "running"
    /\ ab.test_id \in DOMAIN ab_test_results
    /\ ab_test_results[ab.test_id].status = "completed"
    /\ ab_test_results[ab.test_id].winner = "variant_b"
    /\ ab.at < 60 * fromisoformat(ab_test_results[ab.test_id].end_time).t

(***************************************************************************)
(* OpenSourceImageGenerator.generate_multiple_options:                     *)
(* app/services/image_generator.py.  One run is followed statement by      *)
(* statement; random.choice is a choice among the images of the category.  *)
(***************************************************************************)

\* count goes from -1 to one more than the images that can differ: three generated
\* and the three fallback images of a category
MaxCount == 7

Counts == (0 - 1)..MaxCount

styles == <<"professional", "creative", "technical">>

\* the data URL of _generate_with_model, one image for each style
data_url ==
    [professional |-> "data:image/png;base64,cHJvZmVzc2lvbmFs",
     creative |-> "data:image/png;base64,Y3JlYXRpdmU=",
     technical |-> "data:image/png;base64,dGVjaG5pY2Fs"]

\* what generate_image(topic, content_text, style) can return: the data URL of the
\* first model that answers with an image, or _get_fallback_image(topic) when none does
generate_image(t, style) == {data_url[style]} \cup Range(ig_fallback_candidates(t))

Smaller(a, b) == IF a < b THEN a ELSE b

\* images[:count]
slice_to(images, count) ==
    SubSeq(images, 1, IF count >= 0 THEN Smaller(count, Len(images))
                      ELSE IF Len(images) + count > 0 THEN Len(images) + count ELSE 0)

exceptMo == <<contentVars, dbVars, serverVars, img, conns, call, scheduled_posts, view,
              now, cache, trend_cache, lookup, redis_client, redis_db, redis_ops,
              ab_test_results, ab, tags, req, trackVars>>

\* the call: images = [], then the for loop or, with no style to generate, the while loop
MoCall ==
    \E count \in Counts :
        /\ mo.pc = "idle"
        /\ mo' = [pc |-> IF Smaller(count, Len(styles)) > 0 THEN "for" ELSE "while",
                  count |-> count, images |-> <<>>, i |-> 0, steps |-> 0, result |-> <<>>]
        /\ UNCHANGED exceptMo

\* one pass of `for i in range(min(count, len(styles)))`; the URL is never empty
MoGenerate ==
    /\ mo.pc = "for"
    /\ \E image_url \in generate_image(topic, styles[mo.i + 1]) :
          mo' = [mo EXCEPT !.images = Append(@, image_url),
                           !.i = @ + 1,
                           !.steps = @ + 1,
                           !.pc = IF mo.i + 1 < Smaller(mo.count, Len(styles))
                                  THEN "for" ELSE "while"]
    /\ UNCHANGED exceptMo

\* one test of `while len(images) < count` and the pass it starts: a fallback image
\* that is new is appended, one that is in images already breaks the loop
MoFill ==
    /\ mo.pc = "while"
    /\ IF Len(mo.images) < mo.count
       THEN \E fallback \in Range(ig_fallback_candidates(topic)) :
               mo' = IF fallback \notin Range(mo.images)
                     THEN [mo EXCEPT !.images = Append(@, fallback), !.steps = @ + 1]
                     ELSE [mo EXCEPT !.pc = "returned", !.steps = @ + 1,
                                     !.result = slice_to(mo.images, mo.count)]
       ELSE mo' = [mo EXCEPT !.pc = "returned", !.result = slice_to(mo.images, mo.count)]
    /\ UNCHANGED exceptMo

MoNext == MoCall \/ MoGenerate \/ MoFill

SpecMo == ProviderInit /\ [][MoNext]_vars

\* C21 as stated: generate_multiple_options terminates for every count (the passes of
\* its loops are bounded by count) and for count >= 1 returns exactly count URLs.
C21_ExactlyCount ==
    /\ mo.steps <= Len(styles) + (IF mo.count > 0 THEN mo.count ELSE 0) + 1
    /\ (mo.pc = "returned" /\ mo.count >= 1) => Len(mo.result) = mo.count

(***************************************************************************)
(* ContentIntelligenceService._optimize_hashtags:                          *)
(* app/services/content_intelligence.py.  A hashtag is "#" followed by its *)
(* capitalised words, a trend is the sequence of its words.                *)
(***************************************************************************)

MaxTrends == 3

industry_hashtags ==
    [Technology |-> << <<"#","Technology">>, <<"#","Innovation">>, <<"#","AI">>,
                       <<"#","Machine","Learning">>, <<"#","Cloud","Computing">>,
                       <<"#","Cybersecurity">>, <<"#","Dev","Ops">>, <<"#","Tech","Trends">>,
                       <<"#","Digital","Transformation">>, <<"#","Automation">>,
                       <<"#","Software","Development">> >>,
     Marketing |-> << <<"#","Marketing">>, <<"#","Digital","Marketing">>,
                      <<"#","Content","Marketing">>, <<"#","SEO">>,
                      <<"#","Social","Media","Marketing">>, <<"#","Marketing","Strategy">>,
                      <<"#","Brand","Building">>, <<"#","Customer","Experience">>,
                      <<"#","Marketing","Tips">>, <<"#","Growth","Hacking">> >>,
     Finance |-> << <<"#","Finance">>, <<"#","Fin","Tech">>, <<"#","Investment">>,
                    <<"#","Banking">>, <<"#","Cryptocurrency">>,
                    <<"#","Financial","Planning">>, <<"#","Wealth","Management">>,
                    <<"#","Risk","Management">>, <<"#","Financial","Technology">>,
                    <<"#","Personal","Finance">> >>]

\* the hashtags appended to every list
common_hashtags ==
    << <<"#","LinkedIn">>, <<"#","Professional">>, <<"#","Leadership">>, <<"#","Growth">>,
       <<"#","Success">> >>

\* str.capitalize() on the words of the trends below
capitalize ==
    ("innovation" :> "Innovation") @@ ("cloud-first" :> "Cloud-first")
        @@ ("strategies" :> "Strategies") @@ ("edge" :> "Edge")
        @@ ("computing" :> "Computing") @@ ("growth" :> "Growth")
        @@ ("quantum" :> "Quantum") @@ ("research" :> "Research")

\* the trends of the calls: "innovation", "cloud-first strategies",
\* "edge computing growth", "quantum computing research"
TrendArgs ==
    { <<"innovation">>, <<"cloud-first", "strategies">>, <<"edge", "computing", "growth">>,
      <<"quantum", "computing", "research">> }

\* the industries of the calls; "Retail" has no pool of its own
IndustryArgs == {"Technology", "Finance", "Retail"}

\* len(s) of a string given by its fragments
RECURSIVE str_len(_)
str_len(s) == IF s = <<>> THEN 0 ELSE Len(s[1]) + str_len(Tail(s))

\* "#" + "".join(word.capitalize() for word in trend.split()[:2])
trend_hashtag(trend) ==
    <<"#">> \o [k \in 1..Smaller(2, Len(trend)) |-> capitalize[trend[k]]]

\* list(dict.fromkeys(all_hashtags)): the first occurrence of each, in order
RECURSIVE unique(_)
unique(list) ==
    IF list = <<>> THEN <<>>
    ELSE LET front == unique(SubSeq(list, 1, Len(list) - 1))
             x == list[Len(list)]
         IN  IF x \in Range(front) THEN front ELSE Append(front, x)

\* all_hashtags = base_hashtags + trend_hashtags + [...]
all_hashtags(base_hashtags, trend_hashtags) ==
    base_hashtags \o trend_hashtags \o common_hashtags

_optimize_hashtags(industry, trends) ==
    LET base_hashtags == IF industry \in DOMAIN industry_hashtags
                         THEN industry_hashtags[industry]
                         ELSE industry_hashtags["Technology"]
        candidates == [k \in 1..Smaller(2, Len(trends)) |-> trend_hashtag(trends[k])]
        trend_hashtags == SelectSeq(candidates, LAMBDA hashtag : str_len(hashtag) <= 20)
        unique_hashtags == unique(all_hashtags(base_hashtags, trend_hashtags))
    IN  SubSeq(unique_hashtags, 1, Smaller(8, Len(unique_hashtags)))

\* the lists of at most n trends
RECURSIVE TrendLists(_)
TrendLists(n) ==
    IF n = 0 THEN {<<>>}
    ELSE TrendLists(n - 1)
            \cup {Append(l, t) : l \in {x \in TrendLists(n - 1) : Len(x) = n - 1}, t \in TrendArgs}

OptimizeHashtags ==
    \E industry \in IndustryArgs, trends \in TrendLists(MaxTrends) :
        /\ tags' = [fn |-> "_optimize_hashtags", industry |-> industry, trends |-> trends,
                    result |-> _optimize_hashtags(industry, trends)]
        /\ UNCHANGED <<contentVars, dbVars, serverVars, img, conns, call, scheduled_posts,
                       view, now, cache, trend_cache, lookup, redis_client, redis_db,
                       redis_ops, ab_test_results, ab, mo, req, trackVars>>

TagsNext == OptimizeHashtags

SpecTags == PostsInit /\ [][TagsNext]_vars

\* C22 as stated: the list returned by _optimize_hashtags has at most 8 entries, no
\* entry twice, and holds the hashtag built from each of the first two trends whenever
\* that hashtag is at most 20 characters long.
C22_TrendHashtags ==
    tags.fn # "none" =>
        /\ Len(tags.result) <= 8
        /\ \A i, j \in 1..Len(tags.result) : tags.result[i] = tags.result[j] => i = j
        /\ \A k \in 1..Smaller(2, Len(tags.trends)) :
              str_len(trend_hashtag(tags.trends[k])) <= 20 =>
                  trend_hashtag(tags.trends[k]) \in Range(tags.result)

(***************************************************************************)
(* Concurrent POST /api/v1/profile/create: api/index.py.  The handler is   *)
(* `async def` and does not await between its two queries, so the requests *)
(* of one event loop run one after the other; the requests of two          *)
(* instances meet in the database, where get_user_by_email and create_user *)
(* are two statements on two connections, each committed on its own.       *)
(***************************************************************************)

MaxProfileRequests == 3

exceptReq == <<posts, contentVars, serverVars, img, conns, call, scheduled_posts, view,
               now, cache, trend_cache, lookup, redis_client, redis_db, redis_ops,
               ab_test_results, ab, mo, tags, trackVars>>

\* the request arrives and the handler runs get_user_by_email; an existing user ends
\* the request with the error envelope
ProfileCheck(r) ==
    \E email \in Emails, o1 \in DbOutcomes :
        LET existing_user == get_user_by_email(email, o1)
        IN  /\ req[r].pc \in {"idle", "done"}
            /\ req[1].n + req[2].n < MaxProfileRequests
            /\ req' = [req EXCEPT ![r] = [pc |-> IF existing_user # None THEN "done"
                                                 ELSE "checked",
                                          n |-> req[r].n + 1, email |-> email,
                                          lookup |-> o1, inserted |-> FALSE]]
            /\ resp' = [op |-> "profile/create", by |-> r, email |-> email,
                        http |-> IF existing_user # None
                                 THEN ErrorEnvelope("400: Email already registered",
                                                    "User profile creation failed")
                                 ELSE Success({})]
            /\ UNCHANGED <<users, exceptReq>>

\* the handler runs create_user and answers
ProfileInsert(r) ==
    \E fields \in ProfileFields, o2 \in DbOutcomes :
        LET new_user == execute_query(o2, NewUser(req[r].email, fields))
        IN  /\ req[r].pc = "checked"
            /\ Len(users) < MaxUsers
            /\ users' = IF o2 = "ok" THEN Append(users, NewUser(req[r].email, fields))
                        ELSE users
            /\ req' = [req EXCEPT ![r].pc = "done", ![r].inserted = (o2 = "ok")]
            /\ resp' = [op |-> "profile/create", by |-> r, email |-> req[r].email,
                        http |-> IF new_user # None THEN Success({"user"})
                                 ELSE ErrorEnvelope("500: Failed to create user",
                                                    "User profile creation failed")]
            /\ UNCHANGED exceptReq

RaceNext == \E r \in Instances : ProfileCheck(r) \/ ProfileInsert(r)

SpecRace == PostsInit /\ [][RaceNext]_vars

\* C23 as stated: of the concurrent POST /api/v1/profile/create requests that carry
\* the same email, at most one inserts a user row (the requests whose existence check
\* the database answered; an unanswered check is the matter of C14).
C23_OneInsertPerEmail ==
    ~ /\ req[1].email = req[2].email
      /\ req[1].inserted /\ req[2].inserted
      /\ req[1].lookup = "ok" /\ req[2].lookup = "ok"


\* the pipelines that have started
Started == { s \in StreamIds : task[s] \notin {"unused", "queued"} }

\* C29: load_models runs at most once however the pipelines interleave: at most one
\* pipeline passes the `not model_manager.loaded` check and loads the models; once a
\* pipeline has started with a model manager, loaded is True, and (no code of
\* simple_server.py calling cleanup()) it stays True.
C29_LoadedOnce ==
    /\ [](Cardinality(loaders) <= 1)
    /\ []((MODEL_MANAGER_AVAILABLE /\ Started # {}) => (loaded /\ Cardinality(loaders) = 1))
    /\ [][loaded => loaded']_vars

\* two pipelines were queued while loaded was False and both are in flight, awaiting
\* generate_content, after one of them loaded the models
C29_Witness ==
    /\ MODEL_MANAGER_AVAILABLE
    /\ \A s \in StreamIds : task[s] = "drafting"
    /\ Cardinality(loaders) = 1
    /\ loaded

\* C26 as stated: the outcome of a completed A/B test is final: no step changes the
\* status, winner, completed_at or the per-variant results of a test that has status
\* "completed".
C26_CompletedIsFinal ==
    [][ \A id \in DOMAIN ab_test_results :
            ab_test_results[id].status = "completed" =>
                /\ id \in DOMAIN ab_test_results'
                /\ ab_test_results'[id].status = "completed"
                /\ ab_test_results'[id].winner = ab_test_results[id].winner
                /\ ab_test_results'[id].completed_at = ab_test_results[id].completed_at
                /\ ab_test_results'[id].results = ab_test_results[id].results
      ]_vars

\* -------------------------------------------------------------------------------------
\* EngagementTracker.track_post_engagement (app/services/engagement_tracker.py)
\* -------------------------------------------------------------------------------------

\* the calls of track_post_engagement of a run
MaxTrackCalls == 3

\* the latest instant of the clock in the runs of the tracker
MaxTrackNow == 3600

\* the post_id arguments
PostIds == {"p1", "p2"}

\* the values a caller reports for a metric: an int, a str of digits, or None
IntValue(n) == [type |-> "int", v |-> n]

StrValue(n) == [type |-> "str", v |-> n]

NoneValue == [type |-> "NoneType", v |-> 0]

\* the keys of total_metrics
MetricNames == {"likes", "comments", "shares", "views", "clicks", "reach"}

\* the metrics arguments: dicts, as the pairs of items() in insertion order
TrackMetricsArgs ==
    { <<>>,
      << <<"likes", IntValue(5)>> >>,
      << <<"likes", IntValue(3)>>, <<"views", IntValue(10)>> >>,
      << <<"likes", IntValue(0 - 1)>>, <<"saves", StrValue(2)>> >>,
      << <<"comments", IntValue(2)>>, <<"shares", IntValue(1)>>, <<"clicks", IntValue(4)>>,
         <<"reach", IntValue(20)>> >>,
      << <<"likes", IntValue(7)>>, <<"views", StrValue(12)>> >>,
      << <<"reach", NoneValue>> >> }

\* the timestamp arguments: None (the default) or a string
TimestampArgs ==
    { [given |-> FALSE, text |-> <<>>], [given |-> TRUE, text |-> isoformat(32400)] }

\* the mutant of max: the total overwritten by the latest value
max_latest(total, value) == value

\* max(total, value) of two ints: the first argument unless the second is greater
max(total, value) == IF value > total THEN value ELSE total

\* the loop `for metric, value in metrics.items()` over the items left: a metric that
\* is no key of total_metrics is skipped, max() raises TypeError on a value that an int
\* cannot be compared with, and the totals written before that stay written
RECURSIVE update_totals(_, _)
update_totals(totals, items) ==
    IF items = <<>> THEN [raised |-> FALSE, totals |-> totals]
    ELSE LET metric == Head(items)[1]
             value == Head(items)[2]
         IN  IF metric \notin MetricNames THEN update_totals(totals, Tail(items))
             ELSE IF value.type # "int" THEN [raised |-> TRUE, totals |-> totals]
             ELSE update_totals([totals EXCEPT ![metric] = max(@, value.v)], Tail(items))

\* _calculate_engagement_rate, in hundredths of a percent
_calculate_engagement_rate(post_data) ==
    LET metrics == post_data.total_metrics
        total_engagements == metrics.likes + metrics.comments + metrics.shares
        reach == metrics.reach
    IN  IF reach > 0 THEN round_rate(total_engagements, reach) ELSE 0

\* the entry of a post_id that engagement_data does not hold yet
new_post(post_id, timestamp) ==
    [post_id |-> post_id, created_at |-> timestamp, metrics_history |-> <<>>,
     total_metrics |-> [likes |-> 0, comments |-> 0, shares |-> 0, views |-> 0,
                        clicks |-> 0, reach |-> 0]]

\* track_post_engagement: engagement_data after the call and what the call returns
track_post_engagement(post_id, metrics, timestamp) ==
    LET ts == IF timestamp.given THEN timestamp.text ELSE isoformat(now)
        initialized == IF post_id \in DOMAIN engagement_data THEN engagement_data
                       ELSE dict_set(engagement_data, post_id, new_post(post_id, ts))
        appended == [initialized EXCEPT ![post_id].metrics_history =
                        Append(@, [timestamp |-> ts, metrics |-> metrics])]
        updated == update_totals(appended[post_id].total_metrics, metrics)
        totalled == [appended EXCEPT ![post_id].total_metrics = updated.totals]
        engagement_rate == _calculate_engagement_rate(totalled[post_id])
    IN  IF updated.raised
        THEN [data |-> totalled, ts |-> ts,
              ret |-> [success |-> FALSE, post_id |-> post_id]]
        ELSE [data |-> [totalled EXCEPT ![post_id] =
                           dict_set(@, "engagement_rate", engagement_rate)],
              ts |-> ts,
              ret |-> [success |-> TRUE, post_id |-> post_id, current_metrics |-> metrics,
                       engagement_rate |-> engagement_rate, updated_at |-> ts]]

exceptTrack == <<contentVars, dbVars, serverVars, img, conns, call, scheduled_posts, view,
                 now, cache, trend_cache, lookup, redis_client, redis_db, redis_ops,
                 ab_test_results, ab, mo, tags, req>>

\* one call of track_post_engagement
TrackPostEngagement ==
    /\ track.n < MaxTrackCalls
    /\ \E post_id \in PostIds, metrics \in TrackMetricsArgs, timestamp \in TimestampArgs :
           LET r == track_post_engagement(post_id, metrics, timestamp)
           IN  /\ engagement_data' = r.data
               /\ track' = [n |-> track.n + 1, before |-> engagement_data, ret |-> r.ret,
                            calls |-> Append(track.calls,
                                             [post_id |-> post_id, metrics |-> metrics,
                                              timestamp |-> r.ts,
                                              success |-> r.ret.success])]
    /\ UNCHANGED exceptTrack

\* time passes between two calls
TrackTick == Tick /\ now' <= MaxTrackNow

TrackNext == TrackPostEngagement \/ TrackTick

SpecTrack == PostsInit /\ [][TrackNext]_vars

\* C27 as stated: a call of track_post_engagement that returns success: false leaves
\* engagement_data exactly as it was before the call: no post entry created, nothing
\* appended to metrics_history.
C27_AllOrNothing ==
    (track.n > 0 /\ ~track.ret.success) => engagement_data = track.before

\* the calls made for a post so far, in call order
CallsFor(post_id) == SelectSeq(track.calls, LAMBDA c : c.post_id = post_id)

\* every call made for the post so far returned success: true
AllSucceeded(post_id) ==
    \A i \in 1..Len(CallsFor(post_id)) : CallsFor(post_id)[i].success

\* the values reported for a metric of a post so far
Reported(post_id, metric) ==
    { CallsFor(post_id)[i].metrics[j][2].v :
          <<i, j>> \in { x \in (1..Len(CallsFor(post_id))) \X (1..5) :
                            /\ x[2] <= Len(CallsFor(post_id)[x[1]].metrics)
                            /\ CallsFor(post_id)[x[1]].metrics[x[2]][1] = metric } }

\* the greatest element of a non-empty set of integers
Greatest(S) == CHOOSE x \in S : \A y \in S : y <= x

\* C28: after successful calls of track_post_engagement only, each total of a post is
\* the greatest of 0 and the values reported for the metric so far, created_at is the
\* timestamp of the first call for the post, and metrics_history holds one entry per
\* call, in call order.
C28_TotalsAreMaxima ==
    \A post_id \in PostIds :
        (Len(CallsFor(post_id)) > 0 /\ AllSucceeded(post_id)) =>
            /\ post_id \in DOMAIN engagement_data
            /\ \A metric \in MetricNames :
                   engagement_data[post_id].total_metrics[metric]
                       = Greatest({0} \cup Reported(post_id, metric))
            /\ engagement_data[post_id].created_at = CallsFor(post_id)[1].timestamp
            /\ engagement_data[post_id].metrics_history
                   = [i \in 1..Len(CallsFor(post_id)) |->
                         [timestamp |-> CallsFor(post_id)[i].timestamp,
                          metrics |-> CallsFor(post_id)[i].metrics]]

\* a post with two successful calls at different timestamps, the later of which
\* reports fewer likes than the total reached before
C28_Witness ==
    \E post_id \in PostIds :
        LET calls == CallsFor(post_id)
        IN  /\ Len(calls) >= 2
            /\ AllSucceeded(post_id)
            /\ calls[1].timestamp # calls[Len(calls)].timestamp
            /\ calls[Len(calls)].metrics # <<>>
            /\ calls[Len(calls)].metrics[1][1] = "likes"
            /\ calls[Len(calls)].metrics[1][2].v
                   < engagement_data[post_id].total_metrics.likes
====
